---- MODULE Spec2Model ----
(***************************************************************************)
(* A model of the drawlib canvas (ATTHDEV/drawlib): the Canvas struct, its *)
(* path programs, cursor, style fields, transform, clip mask and the       *)
(* Push/Pop state stack.                                                   *)
(*                                                                         *)
(* Numbers.  float64 coordinates are modelled exactly as rationals: a      *)
(* Vector is [X, Y, D] and stands for the point (X/D, Y/D); D = 0 is the   *)
(* nil *Vector.  User coordinates and matrix entries are integers, so the  *)
(* only fractional values are the interior points of a flattened Bezier.   *)
(* IEEE rounding is not modelled: a product the code rounds is exact here. *)
(***************************************************************************)
EXTENDS Integers, Sequences, FiniteSets, TLC

\* ---------------------------------------------------------------- bounds
\* Path-building calls are issued only while the fill program holds fewer
\* than MaxCmds commands (MaxFillCmds in the runs that fill polygons).
MaxCmds == 2
MaxFillCmds == 4
\* Push is issued only while the stack holds fewer than MaxDepth entries.
MaxDepth == 2
\* Translate is issued only while the x offset is below MaxShift.
MaxShift == 1
\* An observed run issues at most MaxCalls calls besides Push and Pop.
MaxCalls == 2

\* ---------------------------------------------------------------- inputs
\* User-space points handed to the path-building calls.
Points == {<<0, 0>>, <<3, 0>>, <<0, 2>>}

\* Control points <<p1, p2>> handed to QuadraticTo.
QuadArgs == {<<<<3, 0>>, <<0, 2>>>>, <<<<0, 0>>, <<0, 0>>>>}

\* Control points <<p1, p2, p3>> handed to CubicTo: a curve of 4 points, a
\* longer one, one that overshoots its end point, and a degenerate one.
CubicArgs == {<<<<0, 0>>, <<0, 2>>, <<0, 2>>>>,
              <<<<3, 0>>, <<3, 2>>, <<0, 2>>>>,
              <<<<3, 0>>, <<3, 0>>, <<2, 0>>>>,
              <<<<0, 0>>, <<0, 0>>, <<0, 0>>>>}

\* Coverage values the rasterizer paints into a clip buffer.
AlphaLevels == {0, 255}

\* Values handed to the style setters.
LineWidths == {1, 3}
DashPatterns == {<<>>, <<5, 3>>}
Colors == {"red"}

\* ---------------------------------------------------------------- vectors
NewVector(x, y) == [X |-> x, Y |-> y, D |-> 1]

\* The nil *Vector (Canvas.start / Canvas.current before the first MoveTo).
NilVector == [X |-> 0, Y |-> 0, D |-> 0]

\* Go's int(f): truncation toward zero of the rational n/d, d > 0.
Trunc(n, d) == IF n >= 0 THEN n \div d ELSE -((-n) \div d)

\* Vector.Fixed: fixed.I(int(v.X)), fixed.I(int(v.Y)); fixed.I(i) is i << 6.
\* A fixed.Point26_6 is the pair <<X, Y>> of 26.6 integers.
Fixed(v) == <<Trunc(v.X, v.D) * 64, Trunc(v.Y, v.D) * 64>>

\* ---------------------------------------------------------------- matrix
\* Matrix{XX, YX, XY, YY, X0, Y0}
Identity == [XX |-> 1, YX |-> 0, XY |-> 0, YY |-> 1, X0 |-> 0, Y0 |-> 0]

TranslateMatrix(x, y) == [XX |-> 1, YX |-> 0, XY |-> 0, YY |-> 1, X0 |-> x, Y0 |-> y]

ScaleMatrix(x, y) == [XX |-> x, YX |-> 0, XY |-> 0, YY |-> y, X0 |-> 0, Y0 |-> 0]

ShearMatrix(x, y) == [XX |-> 1, YX |-> y, XY |-> x, YY |-> 1, X0 |-> 0, Y0 |-> 0]

\* Rotate(angle) for angle = q quarter turns: cos and sin are 0, 1 or -1.
QuarterCos(q) == CASE q % 4 = 0 -> 1 [] q % 4 = 1 -> 0 [] q % 4 = 2 -> -1 [] OTHER -> 0

QuarterSin(q) == CASE q % 4 = 0 -> 0 [] q % 4 = 1 -> 1 [] q % 4 = 2 -> 0 [] OTHER -> -1

RotateMatrix(q) ==
    [XX |-> QuarterCos(q), YX |-> QuarterSin(q),
     XY |-> -QuarterSin(q), YY |-> QuarterCos(q), X0 |-> 0, Y0 |-> 0]

\* Multiply composing in the other order: other first, then self.
MultiplyOtherFirst(m1, m2) ==
    [XX |-> m2.XX * m1.XX + m2.YX * m1.XY,
     YX |-> m2.XX * m1.YX + m2.YX * m1.YY,
     XY |-> m2.XY * m1.XX + m2.YY * m1.XY,
     YY |-> m2.XY * m1.YX + m2.YY * m1.YY,
     X0 |-> m2.X0 * m1.XX + m2.Y0 * m1.XY + m1.X0,
     Y0 |-> m2.X0 * m1.YX + m2.Y0 * m1.YY + m1.Y0]

Multiply(m1, m2) ==
    [XX |-> m1.XX * m2.XX + m1.YX * m2.XY,
     YX |-> m1.XX * m2.YX + m1.YX * m2.YY,
     XY |-> m1.XY * m2.XX + m1.YY * m2.XY,
     YY |-> m1.XY * m2.YX + m1.YY * m2.YY,
     X0 |-> m1.X0 * m2.XX + m1.Y0 * m2.XY + m2.X0,
     Y0 |-> m1.X0 * m2.YX + m1.Y0 * m2.YY + m2.Y0]

\* Matrix.TransformPoint on the user point p = <<x, y>>; the result is the
\* pair of device coordinates.
TransformPoint(m, p) ==
    <<m.XX * p[1] + m.XY * p[2] + m.X0, m.YX * p[1] + m.YY * p[2] + m.Y0>>

\* Matrix.Translate post-multiplying: the translation acts after m.
MatrixTranslateAfter(m, x, y) == Multiply(m, TranslateMatrix(x, y))

MatrixTranslate(m, x, y) == Multiply(TranslateMatrix(x, y), m)

MatrixScale(m, x, y) == Multiply(ScaleMatrix(x, y), m)

MatrixRotate(m, q) == Multiply(RotateMatrix(q), m)

MatrixShear(m, x, y) == Multiply(ShearMatrix(x, y), m)

\* ---------------------------------------------------------------- raster.Path
\* A raster.Path is a flat sequence of fixed-point integers: a command is
\* its tag, its points, and the tag again (the layout flattenPath decodes:
\* tag 0 and 1 take 4 slots, tag 2 takes 6, tag 3 takes 8).
PathStart(p, a) == p \o <<0, a[1], a[2], 0>>

PathAdd1(p, b) == p \o <<1, b[1], b[2], 1>>

PathAdd2(p, b, cc) == p \o <<2, b[1], b[2], cc[1], cc[2], 2>>

PathClear(p) == SubSeq(p, 1, 0)

\* Slots taken by the command with the given tag.
Stride(tag) == CASE tag = 0 -> 4 [] tag = 1 -> 4 [] tag = 2 -> 6 [] OTHER -> 8

\* The tags of the commands of a program, in order.
RECURSIVE TagsFrom(_, _)
TagsFrom(p, i) ==
    IF i > Len(p) THEN <<>> ELSE <<p[i]>> \o TagsFrom(p, i + Stride(p[i]))

Tags(p) == TagsFrom(p, 1)

NumCmds(p) == Len(Tags(p))

\* ---------------------------------------------------------------- Bezier
RECURSIVE Gcd(_, _)
Gcd(a, b) == IF b = 0 THEN a ELSE Gcd(b, a % b)

Abs(n) == IF n < 0 THEN -n ELSE n

\* The same point with the smallest denominator.
Normal(v) ==
    LET g == Gcd(Gcd(Abs(v.X), Abs(v.Y)), v.D)
    IN  [X |-> v.X \div g, Y |-> v.Y \div g, D |-> v.D \div g]

\* floor(sqrt(k)) by bisection on lo..hi.
RECURSIVE IsqrtIn(_, _, _)
IsqrtIn(k, lo, hi) ==
    IF lo >= hi THEN lo
    ELSE LET mid == (lo + hi + 1) \div 2
         IN  IF mid * mid <= k THEN IsqrtIn(k, mid, hi) ELSE IsqrtIn(k, lo, mid - 1)

Isqrt(k) == IsqrtIn(k, 0, 46340)

\* math.Hypot(dx, dy) in thousandths, for dx = dxn/den and dy = dyn/den.
HypotMilli(dxn, dyn, den) ==
    LET ax == (Abs(dxn) * 1000) \div den
        ay == (Abs(dyn) * 1000) \div den
    IN  Isqrt(ax * ax + ay * ay)

\* The point count n of CreateCubicBezier: int(l + 0.5), at least 4, where l
\* is the length of the control polygon p0 p1 p2 p3.
CubicCount(p0, p1, p2, p3) ==
    LET l == HypotMilli(p1.X * p0.D - p0.X * p1.D, p1.Y * p0.D - p0.Y * p1.D, p0.D * p1.D)
             + HypotMilli(p2.X * p1.D - p1.X * p2.D, p2.Y * p1.D - p1.Y * p2.D, p1.D * p2.D)
             + HypotMilli(p3.X * p2.D - p2.X * p3.D, p3.Y * p2.D - p2.Y * p3.D, p2.D * p3.D)
        n == (l + 500) \div 1000
    IN  IF n < 4 THEN 4 ELSE n

\* The i-th point (i in 0..n-1) of CreateCubicBezier, t = i/(n-1).
CubicPoint(p0, p1, p2, p3, n, i) ==
    LET d  == n - 1
        u  == d - i
        a  == u * u * u
        b  == 3 * u * u * i
        cc == 3 * u * i * i
        e  == i * i * i
        w0 == p1.D * p2.D * p3.D
        w1 == p0.D * p2.D * p3.D
        w2 == p0.D * p1.D * p3.D
        w3 == p0.D * p1.D * p2.D
    IN  Normal([X |-> a * p0.X * w0 + b * p1.X * w1 + cc * p2.X * w2 + e * p3.X * w3,
                Y |-> a * p0.Y * w0 + b * p1.Y * w1 + cc * p2.Y * w2 + e * p3.Y * w3,
                D |-> d * d * d * p0.D * w0])

CreateCubicBezier(p0, p1, p2, p3) ==
    LET n == CubicCount(p0, p1, p2, p3)
    IN  [i \in 1..n |-> CubicPoint(p0, p1, p2, p3, n, i - 1)]

\* The point count n of CreateQuadraticBezier.
QuadraticCount(p0, p1, p2) ==
    LET l == HypotMilli(p1.X * p0.D - p0.X * p1.D, p1.Y * p0.D - p0.Y * p1.D, p0.D * p1.D)
             + HypotMilli(p2.X * p1.D - p1.X * p2.D, p2.Y * p1.D - p1.Y * p2.D, p1.D * p2.D)
        n == (l + 500) \div 1000
    IN  IF n < 4 THEN 4 ELSE n

\* The i-th point of CreateQuadraticBezier on Vectors p0 p1 p2.
QuadraticPoint(p0, p1, p2, n, i) ==
    LET d  == n - 1
        u  == d - i
        a  == u * u
        b  == 2 * u * i
        cc == i * i
    IN  Normal([X |-> a * p0.X * p1.D * p2.D + b * p1.X * p0.D * p2.D + cc * p2.X * p0.D * p1.D,
                Y |-> a * p0.Y * p1.D * p2.D + b * p1.Y * p0.D * p2.D + cc * p2.Y * p0.D * p1.D,
                D |-> d * d * p0.D * p1.D * p2.D])

CreateQuadraticBezier(p0, p1, p2) ==
    LET n == QuadraticCount(p0, p1, p2)
    IN  [i \in 1..n |-> QuadraticPoint(p0, p1, p2, n, i - 1)]

\* ---------------------------------------------------------------- Canvas
\* LineCap, LineJoin and FillRule share one const block, so iota runs on.
LineCapRound == 0
LineCapButt == 1
LineCapSquare == 2
LineJoinRound == 3
LineJoinBevel == 4
FillRuleWinding == 5
FillRuleEvenOdd == 6

\* A Pattern: NewSolidPattern(color) or a non-solid paint source.
NewSolidPattern(col) == [solid |-> TRUE, color |-> col]

\* The pixels of the canvas image (a 2 x 1 image), in Pix order.
Pixels == {1, 2}

\* A nil *image.Alpha: the empty buffer (a real mask has one alpha per pixel).
NilMask == <<>>

\* image.NewAlpha: every alpha sample zero.
NewAlpha == [px \in Pixels |-> 0]

\* Every pointer the code stores in Canvas.stack is the canvas itself.
SelfPtr == "c"

\* NewCanvasForRGBA: the Canvas struct after construction.
NewCanvas ==
    [stack         |-> <<>>,
     mask          |-> NilMask,
     color         |-> "transparent",
     fillPattern   |-> NewSolidPattern("white"),
     strokePattern |-> NewSolidPattern("black"),
     strokePath    |-> <<>>,
     fillPath      |-> <<>>,
     start         |-> NilVector,
     current       |-> NilVector,
     hasCurrent    |-> FALSE,
     hasBegin      |-> FALSE,
     vertexts      |-> <<>>,
     dashes        |-> <<>>,
     lineWidth     |-> 1,
     lineCap       |-> 0,
     lineJoin      |-> 0,
     fillRule      |-> FillRuleWinding,
     matrix        |-> Identity]

\* MoveTo closing the open subpath in the stroke program as well.
MoveToClosingBoth(cv, p) ==
    LET fp == IF cv.hasCurrent THEN PathAdd1(cv.fillPath, Fixed(cv.start))
              ELSE cv.fillPath
        sp == IF cv.hasCurrent THEN PathAdd1(cv.strokePath, Fixed(cv.start))
              ELSE cv.strokePath
        t  == TransformPoint(cv.matrix, p)
        v  == NewVector(t[1], t[2])
    IN  [cv EXCEPT !.strokePath = PathStart(sp, Fixed(v)),
                   !.fillPath   = PathStart(fp, Fixed(v)),
                   !.start      = v,
                   !.current    = v,
                   !.hasCurrent = TRUE]

\* Canvas.MoveTo(x, y), p = <<x, y>> in user space.
MoveTo(cv, p) ==
    LET fp == IF cv.hasCurrent THEN PathAdd1(cv.fillPath, Fixed(cv.start))
              ELSE cv.fillPath
        t  == TransformPoint(cv.matrix, p)
        v  == NewVector(t[1], t[2])
    IN  [cv EXCEPT !.strokePath = PathStart(cv.strokePath, Fixed(v)),
                   !.fillPath   = PathStart(fp, Fixed(v)),
                   !.start      = v,
                   !.current    = v,
                   !.hasCurrent = TRUE]

\* LineTo without the implicit MoveTo: the line is appended even when no
\* current point exists.
LineToWithoutStart(cv, p) ==
    LET t == TransformPoint(cv.matrix, p)
        v == NewVector(t[1], t[2])
    IN  [cv EXCEPT !.strokePath = PathAdd1(cv.strokePath, Fixed(v)),
                   !.fillPath   = PathAdd1(cv.fillPath, Fixed(v)),
                   !.current    = v,
                   !.hasCurrent = TRUE]

\* Canvas.LineTo(x, y)
LineTo(cv, p) ==
    IF ~cv.hasCurrent THEN MoveTo(cv, p)
    ELSE LET t == TransformPoint(cv.matrix, p)
             v == NewVector(t[1], t[2])
         IN  [cv EXCEPT !.strokePath = PathAdd1(cv.strokePath, Fixed(v)),
                        !.fillPath   = PathAdd1(cv.fillPath, Fixed(v)),
                        !.current    = v]

\* QuadraticTo starting the missing subpath at the end point instead of the
\* first control point.
QuadraticToFromEnd(cv, p1, p2) ==
    LET c1 == IF ~cv.hasCurrent THEN MoveTo(cv, p2) ELSE cv
        t1 == TransformPoint(c1.matrix, p1)
        t2 == TransformPoint(c1.matrix, p2)
        v1 == NewVector(t1[1], t1[2])
        v2 == NewVector(t2[1], t2[2])
    IN  [c1 EXCEPT !.strokePath = PathAdd2(c1.strokePath, Fixed(v1), Fixed(v2)),
                   !.fillPath   = PathAdd2(c1.fillPath, Fixed(v1), Fixed(v2)),
                   !.current    = v2]

\* Canvas.QuadraticTo(x1, y1, x2, y2)
QuadraticTo(cv, p1, p2) ==
    LET c1 == IF ~cv.hasCurrent THEN MoveTo(cv, p1) ELSE cv
        t1 == TransformPoint(c1.matrix, p1)
        t2 == TransformPoint(c1.matrix, p2)
        v1 == NewVector(t1[1], t1[2])
        v2 == NewVector(t2[1], t2[2])
    IN  [c1 EXCEPT !.strokePath = PathAdd2(c1.strokePath, Fixed(v1), Fixed(v2)),
                   !.fillPath   = PathAdd2(c1.fillPath, Fixed(v1), Fixed(v2)),
                   !.current    = v2]

\* The loop of Canvas.CubicTo over points[i..], previous the last fixed
\* point appended (or the current point on entry).
RECURSIVE CubicAppend(_, _, _, _)
CubicAppend(cv, points, i, previous) ==
    IF i > Len(points) THEN cv
    ELSE LET f == Fixed(points[i])
         IN  IF f = previous THEN CubicAppend(cv, points, i + 1, previous)
             ELSE CubicAppend([cv EXCEPT !.strokePath = PathAdd1(cv.strokePath, f),
                                         !.fillPath   = PathAdd1(cv.fillPath, f),
                                         !.current    = points[i]],
                              points, i + 1, f)

\* CubicTo deferring the curve: one cubic command is appended to both
\* programs instead of the flattened polyline.
CubicToDeferred(cv, p1, p2, p3) ==
    LET c1 == IF ~cv.hasCurrent THEN MoveTo(cv, p1) ELSE cv
        f1 == Fixed(NewVector(TransformPoint(c1.matrix, p1)[1], TransformPoint(c1.matrix, p1)[2]))
        f2 == Fixed(NewVector(TransformPoint(c1.matrix, p2)[1], TransformPoint(c1.matrix, p2)[2]))
        t3 == TransformPoint(c1.matrix, p3)
        f3 == Fixed(NewVector(t3[1], t3[2]))
        cmd == <<3, f1[1], f1[2], f2[1], f2[2], f3[1], f3[2], 3>>
    IN  [c1 EXCEPT !.strokePath = c1.strokePath \o cmd,
                   !.fillPath   = c1.fillPath \o cmd,
                   !.current    = NewVector(t3[1], t3[2])]

\* Canvas.CubicTo(x1, y1, x2, y2, x3, y3)
CubicTo(cv, p1, p2, p3) ==
    LET c1 == IF ~cv.hasCurrent THEN MoveTo(cv, p1) ELSE cv
        t1 == TransformPoint(c1.matrix, p1)
        t2 == TransformPoint(c1.matrix, p2)
        t3 == TransformPoint(c1.matrix, p3)
        points == CreateCubicBezier(c1.current, NewVector(t1[1], t1[2]),
                                    NewVector(t2[1], t2[2]), NewVector(t3[1], t3[2]))
    IN  CubicAppend(c1, points, 2, Fixed(c1.current))

\* Canvas.ClosePath
ClosePath(cv) ==
    IF cv.hasCurrent
    THEN [cv EXCEPT !.strokePath = PathAdd1(cv.strokePath, Fixed(cv.start)),
                    !.fillPath   = PathAdd1(cv.fillPath, Fixed(cv.start)),
                    !.current    = cv.start]
    ELSE cv

\* ClearPath that empties the programs and keeps the has-current flag.
ClearPathKeepingCursor(cv) ==
    [cv EXCEPT !.strokePath = PathClear(cv.strokePath),
               !.fillPath   = PathClear(cv.fillPath)]

\* ClearPath that forgets the fill program.
ClearPathStrokeOnly(cv) ==
    [cv EXCEPT !.strokePath = PathClear(cv.strokePath), !.hasCurrent = FALSE]

\* Canvas.ClearPath
ClearPath(cv) ==
    [cv EXCEPT !.strokePath = PathClear(cv.strokePath),
               !.fillPath   = PathClear(cv.fillPath),
               !.hasCurrent = FALSE]

\* Canvas.NewSubPath
NewSubPath(cv) ==
    LET fp == IF cv.hasCurrent THEN PathAdd1(cv.fillPath, Fixed(cv.start))
              ELSE cv.fillPath
    IN  [cv EXCEPT !.fillPath = fp, !.hasCurrent = FALSE]

\* ---------------------------------------------------------------- flattening
\* NewVector(Unfix(x), Unfix(y)) for 26.6 fixed-point x and y.
UnfixVector(x, y) == Normal([X |-> x, Y |-> y, D |-> 64])

\* All but the first element of a sequence.
Rest(sq) == SubSeq(sq, 2, Len(sq))

\* The loop of flattenPath from slot i: result the polylines closed so far,
\* path the open polyline, cur the point (cx, cy).
RECURSIVE FlattenFrom(_, _, _, _, _)
FlattenFrom(p, i, result, path, cur) ==
    IF i > Len(p) THEN (IF Len(path) > 0 THEN Append(result, path) ELSE result)
    ELSE CASE p[i] = 0 ->
                LET v == UnfixVector(p[i + 1], p[i + 2])
                IN  FlattenFrom(p, i + 4,
                                IF Len(path) > 0 THEN Append(result, path) ELSE result,
                                <<v>>, v)
           [] p[i] = 1 ->
                LET v == UnfixVector(p[i + 1], p[i + 2])
                IN  FlattenFrom(p, i + 4, result, Append(path, v), v)
           [] p[i] = 2 ->
                LET v1 == UnfixVector(p[i + 1], p[i + 2])
                    v2 == UnfixVector(p[i + 3], p[i + 4])
                IN  FlattenFrom(p, i + 6, result,
                                path \o CreateQuadraticBezier(cur, v1, v2), v2)
           [] p[i] = 3 ->
                LET v1 == UnfixVector(p[i + 1], p[i + 2])
                    v2 == UnfixVector(p[i + 3], p[i + 4])
                    v3 == UnfixVector(p[i + 5], p[i + 6])
                IN  FlattenFrom(p, i + 8, result,
                                path \o CreateCubicBezier(cur, v1, v2, v3), v3)

\* flattenPath without the flush after the loop: the last polyline is lost.
flattenPathLosingLast(p) ==
    LET result == FlattenFrom(p, 1, <<>>, <<>>, NilVector)
    IN  SubSeq(result, 1, Len(result) - 1)

\* flattenPath; a tag other than 0..3 matches no arm and stops the
\* evaluation, as panic("bad path") stops the program.
flattenPath(p) == FlattenFrom(p, 1, <<>>, <<>>, NilVector)

\* Vector.Distance in thousandths.
DistanceMilli(v, w) == HypotMilli(w.X * v.D - v.X * w.D, w.Y * v.D - v.Y * w.D, v.D * w.D)

\* Interpolate ignoring t: always the midpoint.
InterpolateMidpoint(v, w, tn, td) ==
    Normal([X |-> v.X * w.D + w.X * v.D, Y |-> v.Y * w.D + w.Y * v.D, D |-> 2 * v.D * w.D])

\* Vector.Interpolate(v2, t) for t = tn/td.
Interpolate(v, w, tn, td) ==
    Normal([X |-> v.X * w.D * td + (w.X * v.D - v.X * w.D) * tn,
            Y |-> v.Y * w.D * td + (w.Y * v.D - v.Y * w.D) * tn,
            D |-> v.D * w.D * td])

\* The inner loop of dashPath on one polyline; lengths are in thousandths.
RECURSIVE DashWalk(_, _, _, _, _, _, _, _)
DashWalk(path, dashes, previous, pathIndex, dashIndex, segmentLength, segment, result) ==
    IF pathIndex > Len(path)
    THEN IF dashIndex % 2 = 0 /\ Len(segment) > 1 THEN Append(result, segment) ELSE result
    ELSE LET dashLength == dashes[dashIndex + 1] * 1000
             point == path[pathIndex]
             d     == DistanceMilli(previous, point)
             maxd  == dashLength - segmentLength
         IN  IF d > maxd
             THEN LET pt  == Interpolate(previous, point, maxd, d)
                      seg == Append(segment, pt)
                  IN  DashWalk(path, dashes, pt, pathIndex,
                               (dashIndex + 1) % Len(dashes), 0, <<pt>>,
                               IF dashIndex % 2 = 0 /\ Len(seg) > 1
                               THEN Append(result, seg) ELSE result)
             ELSE DashWalk(path, dashes, point, pathIndex + 1, dashIndex,
                           segmentLength + d, Append(segment, point), result)

\* The outer loop of dashPath carrying the phase over a path break: a
\* polyline starts at the pattern index given by the segments emitted
\* before it.
RECURSIVE DashPathsCarryingPhase(_, _, _, _)
DashPathsCarryingPhase(paths, dashes, k, result) ==
    IF k > Len(paths) THEN result
    ELSE IF Len(paths[k]) < 2 THEN DashPathsCarryingPhase(paths, dashes, k + 1, result)
    ELSE DashPathsCarryingPhase(paths, dashes, k + 1,
                   DashWalk(paths[k], dashes, paths[k][1], 2, Len(result) % Len(dashes), 0,
                            <<paths[k][1]>>, result))

\* The outer loop of dashPath starting every polyline at pattern index 1.
RECURSIVE DashPathsFromOdd(_, _, _, _)
DashPathsFromOdd(paths, dashes, k, result) ==
    IF k > Len(paths) THEN result
    ELSE IF Len(paths[k]) < 2 THEN DashPathsFromOdd(paths, dashes, k + 1, result)
    ELSE DashPathsFromOdd(paths, dashes, k + 1,
                          DashWalk(paths[k], dashes, paths[k][1], 2, 1, 0,
                                   <<paths[k][1]>>, result))

\* The outer loop of dashPath over paths[k..].
RECURSIVE DashPaths(_, _, _, _)
DashPaths(paths, dashes, k, result) ==
    IF k > Len(paths) THEN result
    ELSE IF Len(paths[k]) < 2 THEN DashPaths(paths, dashes, k + 1, result)
    ELSE DashPaths(paths, dashes, k + 1,
                   DashWalk(paths[k], dashes, paths[k][1], 2, 0, 0, <<paths[k][1]>>, result))

\* dashPath using a single-entry pattern as it is.
dashPathUnpadded(paths, dashes) ==
    IF Len(dashes) = 0 THEN paths ELSE DashPaths(paths, dashes, 1, <<>>)

\* dashPath: no pattern leaves the polylines whole, a single entry is
\* doubled.
dashPath(paths, dashes) ==
    IF Len(dashes) = 0 THEN paths
    ELSE DashPaths(paths, IF Len(dashes) = 1 THEN Append(dashes, dashes[1]) ELSE dashes,
                   1, <<>>)

\* rasterPath keeping every point, equal to its predecessor or not.
RECURSIVE RasterPointsKeepingAll(_, _)
RasterPointsKeepingAll(path, i) ==
    IF i > Len(path) THEN <<>>
    ELSE IF i = 1 THEN PathStart(<<>>, Fixed(path[i])) \o RasterPointsKeepingAll(path, i + 1)
    ELSE PathAdd1(<<>>, Fixed(path[i])) \o RasterPointsKeepingAll(path, i + 1)

\* The inner loop of rasterPath: what the points path[i..] append.  The
\* loop's previous is the fixed point of path[i - 1], kept or not.
RECURSIVE RasterPoints(_, _)
RasterPoints(path, i) ==
    IF i > Len(path) THEN <<>>
    ELSE LET f == Fixed(path[i])
             previous == Fixed(path[i - 1])
         IN  IF i = 1 THEN PathStart(<<>>, f) \o RasterPoints(path, i + 1)
             ELSE IF Abs(f[1] - previous[1]) + Abs(f[2] - previous[2]) > 8
             THEN PathAdd1(<<>>, f) \o RasterPoints(path, i + 1)
             ELSE RasterPoints(path, i + 1)

\* The outer loop of rasterPath over paths[k..].
RECURSIVE RasterPaths(_, _)
RasterPaths(paths, k) ==
    IF k > Len(paths) THEN <<>>
    ELSE RasterPoints(paths[k], 1) \o RasterPaths(paths, k + 1)

rasterPath(paths) == RasterPaths(paths, 1)

\* ---------------------------------------------------------------- painting
\* fill without the synthesized closure.
FillInputUnclosed(cv) == cv.fillPath

\* The path Canvas.fill hands to Rasterizer.AddPath: the fill program, with
\* the closing segment added on a copy when a current point exists.
FillInput(cv) ==
    IF cv.hasCurrent THEN PathAdd1(cv.fillPath, Fixed(cv.start)) ELSE cv.fillPath

\* Canvas.fill(painter): what the rasterizer is given.  winding is the
\* UseNonZeroWinding it is left with, path the argument of AddPath.
fill(cv, painter) ==
    [winding |-> cv.fillRule = FillRuleWinding,
     path    |-> FillInput(cv),
     stroked |-> FALSE,
     painter |-> painter]

\* The path Canvas.stroke hands to Rasterizer.AddStroke.
StrokeInput(cv) ==
    IF Len(cv.dashes) > 0
    THEN rasterPath(dashPath(flattenPath(cv.strokePath), cv.dashes))
    ELSE rasterPath(flattenPath(cv.strokePath))

\* stroke rasterizing under the configured fill rule, as fill does.
strokeUnderFillRule(cv, painter) ==
    [winding |-> cv.fillRule = FillRuleWinding,
     path    |-> StrokeInput(cv),
     stroked |-> TRUE,
     painter |-> painter]

\* Canvas.stroke(painter): what the rasterizer is given.
stroke(cv, painter) ==
    [winding |-> TRUE,
     path    |-> StrokeInput(cv),
     stroked |-> TRUE,
     painter |-> painter]

\* The choice of painter looking at the pattern only: a solid pattern takes
\* the fast path under a mask as well.
PainterForPatternOnly(cv, pattern) ==
    IF pattern.solid THEN "RGBAPainter" ELSE "patternPainter"

\* The painter FillPreserve / StrokePreserve build for a pattern.
PainterFor(cv, pattern) ==
    IF cv.mask = NilMask /\ pattern.solid THEN "RGBAPainter" ELSE "patternPainter"

\* Canvas.StrokePreserve: it changes the rasterizer only.
StrokePreserve(cv) == stroke(cv, PainterFor(cv, cv.strokePattern))

\* Canvas.FillPreserve: it changes the rasterizer only.
FillPreserve(cv) == fill(cv, PainterFor(cv, cv.fillPattern))

\* DrawMask taking the union: the larger of the two alphas.
MaskedAlphaUnion(clipA, maskA) == IF clipA > maskA THEN clipA ELSE maskA

\* draw.DrawMask(mask, .., clip, .., c.mask, .., draw.Over) on a fresh zero
\* destination: per pixel (sa * ma / 0xffff) >> 8 with sa = 257 * clip and
\* ma = 257 * old mask (0xffff = 255 * 257).
MaskedAlpha(clipA, maskA) == ((clipA * maskA * 257) \div 255) \div 256

\* ClipPreserve installing the new clip alone, whatever mask exists.
ClipPreserveReplacing(cv, cov) == [cv EXCEPT !.mask = cov]

\* Canvas.ClipPreserve, cov the coverage the rasterizer painted into clip.
ClipPreserve(cv, cov) ==
    IF cv.mask = NilMask THEN [cv EXCEPT !.mask = cov]
    ELSE [cv EXCEPT !.mask = [px \in Pixels |-> MaskedAlpha(cov[px], cv.mask[px])]]

\* Canvas.ResetClip
ResetClip(cv) == [cv EXCEPT !.mask = NilMask]

\* The size of the canvas image, <<width, height>>.
CanvasSize == <<Cardinality(Pixels), 1>>

\* SetMask installing the mask before it compares the sizes.
SetMaskThenCheck(cv, mask) ==
    [c   |-> [cv EXCEPT !.mask = mask.pix],
     err |-> IF mask.size # CanvasSize THEN "mask size must match context size" ELSE "nil"]

\* Canvas.SetMask(mask), mask = [size, pix]: the canvas and the error it
\* returns.
SetMask(cv, mask) ==
    IF mask.size # CanvasSize
    THEN [c |-> cv, err |-> "mask size must match context size"]
    ELSE [c |-> [cv EXCEPT !.mask = mask.pix], err |-> "nil"]

\* InvertMask negating each sample in uint8: 0 stays 0.
InvertMaskNegating(cv) ==
    IF cv.mask = NilMask THEN [cv EXCEPT !.mask = NewAlpha]
    ELSE [cv EXCEPT !.mask = [px \in Pixels |-> (256 - cv.mask[px]) % 256]]

\* Canvas.InvertMask
InvertMask(cv) ==
    IF cv.mask = NilMask THEN [cv EXCEPT !.mask = NewAlpha]
    ELSE [cv EXCEPT !.mask = [px \in Pixels |-> 255 - cv.mask[px]]]

\* Canvas.SetFillStyle(pattern): a solid pattern also sets the color.
SetFillStyle(cv, pattern) ==
    [cv EXCEPT !.color = IF pattern.solid THEN pattern.color ELSE cv.color,
               !.fillPattern = pattern]

\* Canvas.SetStrokeStyle(pattern)
SetStrokeStyle(cv, pattern) == [cv EXCEPT !.strokePattern = pattern]

\* Canvas.setFillAndStrokeColor via Canvas.SetColor
SetColor(cv, col) ==
    [cv EXCEPT !.color = col,
               !.fillPattern = NewSolidPattern(col),
               !.strokePattern = NewSolidPattern(col)]

\* ---------------------------------------------------------------- shapes
\* Canvas.DrawLine
DrawLine(cv, p1, p2) == LineTo(MoveTo(cv, p1), p2)

\* Canvas.DrawRectangle(x, y, w, h), p = <<x, y>>
DrawRectangle(cv, p, w, h) ==
    ClosePath(LineTo(LineTo(LineTo(MoveTo(NewSubPath(cv), p),
                                   <<p[1] + w, p[2]>>),
                            <<p[1] + w, p[2] + h>>),
                     <<p[1], p[2] + h>>))

\* The 16 QuadraticTo calls of DrawEllipticalArc for radii 0: every point
\* x + 0*cos(a), y + 0*sin(a) and every control point is <<x, y>> itself.
RECURSIVE ArcSegments(_, _, _)
ArcSegments(cv, p, i) ==
    IF i = 16 THEN cv ELSE ArcSegments(QuadraticTo(cv, p, p), p, i + 1)

\* Canvas.DrawEllipticalArc(x, y, 0, 0, angle1, angle2)
DrawEllipticalArc(cv, p) ==
    ArcSegments(IF cv.hasCurrent THEN LineTo(cv, p) ELSE MoveTo(cv, p), p, 0)

\* Canvas.DrawCircle(x, y, 0)
DrawCircle(cv, p) == ClosePath(DrawEllipticalArc(NewSubPath(cv), p))

\* ---------------------------------------------------------------- state stack
\* Canvas.Push: the pointer c itself is appended, not a copy of *c.
Push(cv) == [cv EXCEPT !.stack = Append(cv.stack, SelfPtr)]

\* *x for a stack entry x: every entry points at the canvas, so the value
\* read through it is the canvas as it is now.
Deref(x, cv) == cv

\* Pop with a copy-paste slip: c.fillPath = before.strokePath.
PopFillFromStroke(cv) == [cv EXCEPT !.fillPath = cv.strokePath]

\* Pop with a copy-paste slip: c.current = before.start.
PopCurrentFromStart(cv) == [cv EXCEPT !.current = cv.start]

\* Canvas.Pop on a non-empty stack.  s is a local: the shortened slice is
\* never stored back into c.stack.
Pop(cv) ==
    LET before == cv
        x      == cv.stack[Len(cv.stack)]
        restoredC == Deref(x, cv)
    IN  [restoredC EXCEPT !.mask       = before.mask,
                          !.strokePath = before.strokePath,
                          !.fillPath   = before.fillPath,
                          !.start      = before.start,
                          !.current    = before.current,
                          !.hasCurrent = before.hasCurrent]

\* Pop guarded against the empty stack: it returns silently.
PopNeverPanics(cv) == FALSE

\* Pop indexes s[len(s)-1]: on an empty stack that is a run-time panic.
PopPanics(cv) == Len(cv.stack) = 0

\* Canvas.DrawPoint(x, y, 0): Push, the point in device space, Identity,
\* DrawCircle there, Pop.  The stack is not empty at the Pop.
DrawPoint(cv, p) ==
    LET pushed == Push(cv)
        t      == TransformPoint(pushed.matrix, p)
        reset  == [pushed EXCEPT !.matrix = Identity]
    IN  Pop(DrawCircle(reset, t))

\* Canvas.BeginShape
BeginShape(cv) == [cv EXCEPT !.vertexts = <<>>, !.hasBegin = TRUE]

\* Canvas.Vertex(x, y)
Vertex(cv, p) ==
    IF cv.hasBegin THEN [cv EXCEPT !.vertexts = Append(@, NewVector(p[1], p[2]))] ELSE cv

\* The LineTo loop of EndShape over vertexts[i..].
RECURSIVE ShapeLines(_, _)
ShapeLines(cv, i) ==
    IF i > Len(cv.vertexts) THEN cv
    ELSE ShapeLines(LineTo(cv, <<cv.vertexts[i].X, cv.vertexts[i].Y>>), i + 1)

\* EndShape reads c.vertexts[0] of an empty slice: index out of range.
EndShapePanics(cv) == cv.hasBegin /\ Len(cv.vertexts) = 0

\* Canvas.EndShape(isClose...) when it returns; isClose is the variadic
\* argument as a sequence.
EndShape(cv, isClose) ==
    IF ~cv.hasBegin THEN cv
    ELSE LET first  == <<cv.vertexts[1].X, cv.vertexts[1].Y>>
             lined  == ShapeLines(MoveTo([cv EXCEPT !.hasBegin = FALSE], first), 2)
         IN  IF Len(isClose) = 1 /\ isClose[1] THEN LineTo(lined, first) ELSE lined

\* ---------------------------------------------------------------- state
VARIABLES
    c,           \* the Canvas struct
    rasterizer,  \* the shared raster.Rasterizer: its UseNonZeroWinding field
    panicked,    \* a run-time panic has ended the program
    call,        \* the last call issued: its name, its arguments, what it
                 \* handed to the rasterizer (out), and whether a current
                 \* point existed when it was issued (had)
    env,         \* the caller of this run, see Caller below
    shadow,      \* the by-value copies of the canvas taken at each unmatched Push
    restored,    \* after a Pop: the copy taken at its matching Push, if any
    calls,       \* in an observed run: calls issued, besides Push and Pop
    mat,         \* a Matrix value built by the functions of matrix.go
    dash,        \* one run of dashPath or flattenPath: its arguments and its result
    win          \* the Drawlib window: its two threads, event queue and mutex

vars == <<c, rasterizer, panicked, call, env, shadow, restored, calls, mat, dash, win>>

\* raster.NewRasterizer
NewRasterizer == [UseNonZeroWinding |-> FALSE]

\* A call that rasterizes nothing.
NoOutput == [winding |-> FALSE, path |-> <<>>, stroked |-> FALSE, painter |-> "none"]

\* New(): the Drawlib struct before Start.  ticker and loop are the
\* positions of the ticker goroutine and of the event loop, events the
\* window's event queue, ticks, inputs and frames count what has happened.
\* A callback field is TRUE when a callback is registered (nil otherwise);
\* ran lists the callbacks the event loop invoked for the event it took
\* last, closed counts the runs of the close callback, exit says which
\* return statement of eventLoop was taken and quits counts the calls of
\* Quit.
New ==
    [ticker |-> "off", loop |-> "off", events |-> <<>>, mutex |-> "free",
     keyIsPress |-> FALSE, rect |-> "options", ticks |-> 0, inputs |-> 0,
     frames |-> 0, defaultCloseOperation |-> TRUE, closeCallback |-> FALSE,
     KeyPressCallback |-> FALSE, KeyReleaseCallback |-> FALSE,
     ran |-> <<>>, closed |-> 0, exit |-> "none", quits |-> 0]

\* No run of dashPath.
NoDash == [paths |-> <<>>, dashes |-> <<>>, result |-> <<>>, done |-> FALSE]

\* The caller of a run: whether it records by-value copies at each Push and
\* counts its calls (observe), how many calls it issues when it counts
\* (calls), how long a path it builds (cmds), and the coverage values its
\* paths make the rasterizer paint (levels).
Caller(observe, ncalls, cmds, levels) ==
    [observe |-> observe, calls |-> ncalls, cmds |-> cmds, levels |-> levels]

InitCanvas ==
    /\ c = NewCanvas
    /\ rasterizer = NewRasterizer
    /\ panicked = FALSE
    /\ call = [op |-> "NewCanvas", args |-> <<>>, out |-> NoOutput, had |-> FALSE,
               err |-> "nil"]
    /\ shadow = <<>>
    /\ restored = <<>>
    /\ calls = 0
    /\ win = New

\* A run on the canvas: no Matrix is built and dashPath is not run apart
\* from the canvas.
CanvasOnly == mat = Identity /\ dash = NoDash

Init == InitCanvas /\ CanvasOnly /\ env = Caller(FALSE, MaxCalls, MaxCmds, AlphaLevels)

InitFill ==
    InitCanvas /\ CanvasOnly /\ env = Caller(FALSE, MaxCalls, MaxFillCmds, AlphaLevels)

InitObserved ==
    InitCanvas /\ CanvasOnly /\ env = Caller(TRUE, MaxCalls, MaxCmds, AlphaLevels)

\* A call that returns normally, leaving the canvas nc, having handed out to
\* the rasterizer (NoOutput: the rasterizer is not touched); err is the error
\* it returns, "nil" for a method without an error result.
ReturnsErr(op, args, nc, out, err) ==
    /\ ~panicked
    /\ env.observe => calls < env.calls
    /\ c' = nc
    /\ rasterizer' = IF out.painter = "none" THEN rasterizer
                     ELSE [UseNonZeroWinding |-> out.winding]
    /\ call' = [op |-> op, args |-> args, out |-> out, had |-> c.hasCurrent,
                err |-> err]
    /\ calls' = IF env.observe THEN calls + 1 ELSE calls
    /\ restored' = <<>>
    /\ UNCHANGED <<panicked, env, shadow, mat, dash, win>>

Returns(op, args, nc, out) == ReturnsErr(op, args, nc, out, "nil")

\* The caller goes on building the path.
MayBuild == NumCmds(c.fillPath) < env.cmds

\* ----- path building
CallMoveTo == \E p \in Points : MayBuild /\ Returns("MoveTo", <<p>>, MoveTo(c, p), NoOutput)

CallLineTo == \E p \in Points : MayBuild /\ Returns("LineTo", <<p>>, LineTo(c, p), NoOutput)

CallQuadraticTo ==
    \E a \in QuadArgs :
        MayBuild /\ Returns("QuadraticTo", a, QuadraticTo(c, a[1], a[2]), NoOutput)

CallCubicTo ==
    \E a \in CubicArgs :
        MayBuild /\ Returns("CubicTo", a, CubicTo(c, a[1], a[2], a[3]), NoOutput)

CallClosePath == MayBuild /\ Returns("ClosePath", <<>>, ClosePath(c), NoOutput)

CallNewSubPath == MayBuild /\ Returns("NewSubPath", <<>>, NewSubPath(c), NoOutput)

CallClearPath == Returns("ClearPath", <<>>, ClearPath(c), NoOutput)

CallDrawLine ==
    \E p1 \in {<<0, 0>>}, p2 \in Points :
        MayBuild /\ Returns("DrawLine", <<p1, p2>>, DrawLine(c, p1, p2), NoOutput)

CallDrawRectangle ==
    \E p \in {<<3, 0>>} :
        MayBuild /\ Returns("DrawRectangle", <<p>>, DrawRectangle(c, p, 1, 2), NoOutput)

CallDrawCircle ==
    \E p \in {<<0, 2>>} : MayBuild /\ Returns("DrawCircle", <<p>>, DrawCircle(c, p), NoOutput)

\* ----- painting
CallFillPreserve == Returns("FillPreserve", <<>>, c, FillPreserve(c))

\* Canvas.Fill: FillPreserve, then ClearPath.
CallFill == Returns("Fill", <<>>, ClearPath(c), FillPreserve(c))

CallStrokePreserve == Returns("StrokePreserve", <<>>, c, StrokePreserve(c))

\* Canvas.Stroke: StrokePreserve, then ClearPath.
CallStroke == Returns("Stroke", <<>>, ClearPath(c), StrokePreserve(c))

\* The coverage buffers the rasterizer can paint for a path: nothing for an
\* empty path, any coverage otherwise (the scanline rasterizer is external).
Coverages(path) ==
    IF Len(path) = 0 THEN {NewAlpha} ELSE [Pixels -> env.levels]

CallClipPreserve ==
    \E cov \in Coverages(FillInput(c)) :
        Returns("ClipPreserve", <<cov>>, ClipPreserve(c, cov), fill(c, "AlphaOverPainter"))

\* Canvas.Clip: ClipPreserve, then ClearPath.
CallClip ==
    \E cov \in Coverages(FillInput(c)) :
        Returns("Clip", <<cov>>, ClearPath(ClipPreserve(c, cov)), fill(c, "AlphaOverPainter"))

CallResetClip == Returns("ResetClip", <<>>, ResetClip(c), NoOutput)

CallInvertMask == Returns("InvertMask", <<>>, InvertMask(c), NoOutput)

\* Masks handed to SetMask: two of the canvas size, one smaller, one larger,
\* and one with as many pixels in another shape.
MaskArgs ==
    {[size |-> <<2, 1>>, pix |-> <<0, 255>>],
     [size |-> <<2, 1>>, pix |-> <<200, 200>>],
     [size |-> <<1, 1>>, pix |-> <<255>>],
     [size |-> <<3, 1>>, pix |-> <<255, 0, 255>>],
     [size |-> <<1, 2>>, pix |-> <<255, 255>>]}

CallSetMask ==
    \E mask \in MaskArgs :
        ReturnsErr("SetMask", <<mask>>, SetMask(c, mask).c, NoOutput, SetMask(c, mask).err)

\* ----- style
CallSetLineWidth ==
    \E w \in LineWidths :
        Returns("SetLineWidth", <<w>>, [c EXCEPT !.lineWidth = w], NoOutput)

CallSetLineCap ==
    \E k \in {LineCapRound, LineCapButt, LineCapSquare} :
        Returns("SetLineCap", <<k>>, [c EXCEPT !.lineCap = k], NoOutput)

CallSetLineJoin ==
    \E k \in {LineJoinRound, LineJoinBevel} :
        Returns("SetLineJoin", <<k>>, [c EXCEPT !.lineJoin = k], NoOutput)

CallSetFillRule ==
    \E k \in {FillRuleWinding, FillRuleEvenOdd} :
        Returns("SetFillRule", <<k>>, [c EXCEPT !.fillRule = k], NoOutput)

CallSetDash ==
    \E d \in DashPatterns :
        Returns("SetDash", <<d>>, [c EXCEPT !.dashes = d], NoOutput)

CallSetColor == \E col \in Colors : Returns("SetColor", <<col>>, SetColor(c, col), NoOutput)

\* ----- transform
CallIdentity == Returns("Identity", <<>>, [c EXCEPT !.matrix = Identity], NoOutput)

\* The caller moves the origin between paths, not in the middle of one.
CallTranslate ==
    /\ c.matrix.X0 < MaxShift
    /\ Len(c.fillPath) = 0
    /\ Returns("Translate", <<1, 0>>,
               [c EXCEPT !.matrix = MatrixTranslate(c.matrix, 1, 0)], NoOutput)

CallScale ==
    /\ c.matrix.XX = 1
    /\ Returns("Scale", <<2, 1>>, [c EXCEPT !.matrix = MatrixScale(c.matrix, 2, 1)], NoOutput)

CallRotate ==
    Returns("Rotate", <<1>>, [c EXCEPT !.matrix = MatrixRotate(c.matrix, 1)], NoOutput)

CallShear ==
    /\ c.matrix.XY = 0
    /\ Returns("Shear", <<1, 0>>, [c EXCEPT !.matrix = MatrixShear(c.matrix, 1, 0)], NoOutput)

\* ----- state stack
CallPush ==
    /\ ~panicked
    /\ Len(c.stack) < MaxDepth
    /\ c' = Push(c)
    /\ call' = [op |-> "Push", args |-> <<>>, out |-> NoOutput, had |-> c.hasCurrent,
                err |-> "nil"]
    /\ shadow' = IF env.observe THEN Append(shadow, c) ELSE shadow
    /\ restored' = <<>>
    /\ UNCHANGED <<rasterizer, panicked, env, calls, mat, dash, win>>

CallPop ==
    /\ ~panicked
    /\ call' = [op |-> "Pop", args |-> <<>>, out |-> NoOutput, had |-> c.hasCurrent,
                err |-> "nil"]
    /\ IF PopPanics(c)
       THEN /\ panicked' = TRUE
            /\ UNCHANGED <<c, shadow, restored>>
       ELSE /\ c' = Pop(c)
            /\ panicked' = FALSE
            /\ restored' = IF Len(shadow) > 0 THEN <<shadow[Len(shadow)]>> ELSE <<>>
            /\ shadow' = IF Len(shadow) > 0 THEN SubSeq(shadow, 1, Len(shadow) - 1) ELSE shadow
    /\ UNCHANGED <<rasterizer, env, calls, mat, dash, win>>

\* ---------------------------------------------------------------- specifications
\* Path building, painting and the state stack.
Next ==
    \/ CallMoveTo
    \/ CallLineTo
    \/ CallQuadraticTo
    \/ CallCubicTo
    \/ CallClosePath
    \/ CallNewSubPath
    \/ CallClearPath
    \/ CallDrawLine
    \/ CallDrawRectangle
    \/ CallDrawCircle
    \/ CallFillPreserve
    \/ CallFill
    \/ CallStrokePreserve
    \/ CallStroke
    \/ CallTranslate
    \/ CallPush
    \/ CallPop

Spec == Init /\ [][Next]_vars

\* Polygons built from lines, and filled.
NextFill ==
    \/ CallMoveTo
    \/ CallLineTo
    \/ CallClosePath
    \/ CallFillPreserve
    \/ CallFill

SpecFill == InitFill /\ [][NextFill]_vars

\* Painting and clipping a path, with and without keeping it.
NextPaint ==
    \/ CallMoveTo
    \/ CallLineTo
    \/ CallQuadraticTo
    \/ CallClosePath
    \/ CallFillPreserve
    \/ CallFill
    \/ CallStrokePreserve
    \/ CallStroke
    \/ CallClipPreserve
    \/ CallClip
    \/ CallResetClip

SpecPaint == Init /\ [][NextPaint]_vars

\* Style, transform and clip calls around Push and Pop, observed.
NextStack ==
    \/ CallSetLineWidth
    \/ CallSetLineCap
    \/ CallSetLineJoin
    \/ CallSetFillRule
    \/ CallSetDash
    \/ CallSetColor
    \/ CallIdentity
    \/ CallTranslate
    \/ CallScale
    \/ CallRotate
    \/ CallShear
    \/ CallClipPreserve
    \/ CallResetClip
    \/ CallPush
    \/ CallPop

SpecStack == InitObserved /\ [][NextStack]_vars

\* Path-building calls around Push and Pop, observed.
NextCursor ==
    \/ CallMoveTo
    \/ CallLineTo
    \/ CallClosePath
    \/ CallNewSubPath
    \/ CallClearPath
    \/ CallFill
    \/ CallStroke
    \/ CallPush
    \/ CallPop

SpecCursor == InitObserved /\ [][NextCursor]_vars

\* ----- the winding rule: paths are built, the fill rule is set, and the
\* path is filled and stroked in any order.
NextWinding ==
    \/ CallMoveTo
    \/ CallLineTo
    \/ CallSetFillRule
    \/ CallFillPreserve
    \/ CallFill
    \/ CallStrokePreserve
    \/ CallStroke

SpecWinding == Init /\ [][NextWinding]_vars

\* ----- clipping: a caller that clips, sets, inverts and resets the mask
\* and paints through it; it issues at most MaxClipCalls calls, and its
\* paths make the rasterizer paint the coverage values ClipLevels.
MaxClipCalls == 4

ClipLevels == {0, 200, 255}

InitClip == InitCanvas /\ CanvasOnly /\ env = Caller(TRUE, MaxClipCalls, MaxCmds, ClipLevels)

NextClip ==
    \/ CallDrawRectangle
    \/ CallClipPreserve
    \/ CallClip
    \/ CallResetClip
    \/ CallInvertMask
    \/ CallSetMask
    \/ CallFillPreserve
    \/ CallStrokePreserve

SpecClip == InitClip /\ [][NextClip]_vars

\* ---------------------------------------------------------------- matrix.go alone
\* A Matrix function is applied while fewer than MaxMatrixOps have been.
MaxMatrixOps == 3

\* Arguments of Multiply, and the matrices a run starts from: a translation,
\* a quarter turn, a scale, a shear and a matrix with six different entries.
MatrixArgs ==
    {TranslateMatrix(10, 0), RotateMatrix(1), ScaleMatrix(2, 3), ShearMatrix(1, 0),
     [XX |-> 1, YX |-> 2, XY |-> 3, YY |-> 4, X0 |-> 5, Y0 |-> 6]}

\* Arguments of Translate, of Scale and Shear, and of Rotate (quarter turns).
Offsets == {<<10, 0>>, <<-1, 2>>}
Factors == {<<2, 1>>, <<-1, 3>>}
QuarterTurns == {1, 2, 3}

\* Points the resulting transforms are compared on.
TestPoints == {<<0, 0>>, <<1, 0>>, <<0, 1>>, <<2, -3>>}

InitMatrix ==
    /\ InitCanvas
    /\ env = Caller(FALSE, MaxCalls, MaxCmds, AlphaLevels)
    /\ mat \in MatrixArgs \cup {Identity}
    /\ dash = NoDash

\* A function of matrix.go returns nm for the receiver mat.
MatrixReturns(op, args, nm) ==
    /\ calls < MaxMatrixOps
    /\ mat' = nm
    /\ calls' = calls + 1
    /\ call' = [op |-> op, args |-> args, out |-> NoOutput, had |-> FALSE, err |-> "nil"]
    /\ UNCHANGED <<c, rasterizer, panicked, env, shadow, restored, dash, win>>

ApplyMultiply ==
    \E m2 \in MatrixArgs : MatrixReturns("Matrix.Multiply", <<m2>>, Multiply(mat, m2))

ApplyTranslate ==
    \E d \in Offsets :
        MatrixReturns("Matrix.Translate", d, MatrixTranslate(mat, d[1], d[2]))

ApplyScale ==
    \E f \in Factors : MatrixReturns("Matrix.Scale", f, MatrixScale(mat, f[1], f[2]))

ApplyRotate ==
    \E q \in QuarterTurns : MatrixReturns("Matrix.Rotate", <<q>>, MatrixRotate(mat, q))

ApplyShear ==
    \E f \in Factors : MatrixReturns("Matrix.Shear", f, MatrixShear(mat, f[1], f[2]))

NextMatrix ==
    \/ ApplyMultiply
    \/ ApplyTranslate
    \/ ApplyScale
    \/ ApplyRotate
    \/ ApplyShear

SpecMatrix == InitMatrix /\ [][NextMatrix]_vars

\* ---------------------------------------------------------------- dashPath alone
\* A polyline handed to dashPath has at most MaxPolyLen points.
MaxPolyLen == 3

\* Corner points of a 3 by 4 rectangle: every distance between two of them is
\* a whole number, so every length and every cut point is exact.
DashPoints == {NewVector(0, 0), NewVector(3, 0), NewVector(0, 4), NewVector(3, 4)}

\* The sequences of n points.
PointSeqs(n) == [1..n -> DashPoints]

\* Straight runs of 16 units, in one piece and with a vertex half way.
Straight16 == <<NewVector(0, 0), NewVector(16, 0)>>
Straight8And8 == <<NewVector(0, 0), NewVector(8, 0), NewVector(16, 0)>>

Polylines ==
    UNION {PointSeqs(n) : n \in 1..MaxPolyLen} \cup {Straight16, Straight8And8}

\* The polyline sets handed to dashPath: one polyline, or one followed by a
\* second one.
DashInputs ==
    {<<pl>> : pl \in Polylines}
        \cup {<<pl, Straight16>> : pl \in PointSeqs(2)}
        \cup {<<pl, <<NewVector(3, 4)>>, Straight8And8>> : pl \in PointSeqs(2)}

\* The dash patterns handed to dashPath.
DashArgs == {<<>>, <<2>>, <<2, 2>>, <<5>>, <<5, 5>>, <<5, 3>>, <<1, 2, 3>>}

InitDash ==
    /\ InitCanvas
    /\ env = Caller(FALSE, MaxCalls, MaxCmds, AlphaLevels)
    /\ mat = Identity
    /\ dash \in {[paths |-> ps, dashes |-> ds, result |-> <<>>, done |-> FALSE] :
                    ps \in DashInputs, ds \in DashArgs}

\* dashPath(paths, dashes) returns.
RunDashPath ==
    /\ ~dash.done
    /\ dash' = [dash EXCEPT !.result = dashPath(dash.paths, dash.dashes), !.done = TRUE]
    /\ call' = [op |-> "dashPath", args |-> <<>>, out |-> NoOutput, had |-> FALSE,
                err |-> "nil"]
    /\ UNCHANGED <<c, rasterizer, panicked, env, shadow, restored, calls, mat, win>>

NextDash == RunDashPath

SpecDash == InitDash /\ [][NextDash]_vars

\* ---------------------------------------------------------------- painters
\* The patterns handed to SetFillStyle and SetStrokeStyle: a solid one and
\* one that is no *solidPattern (any other implementation of Pattern).
StylePatterns == {NewSolidPattern("red"), [solid |-> FALSE, color |-> "none"]}

CallSetFillStyle ==
    \E pattern \in StylePatterns :
        Returns("SetFillStyle", <<pattern>>, SetFillStyle(c, pattern), NoOutput)

CallSetStrokeStyle ==
    \E pattern \in StylePatterns :
        Returns("SetStrokeStyle", <<pattern>>, SetStrokeStyle(c, pattern), NoOutput)

\* The caller makes at most MaxPaintCalls calls.
MaxPaintCalls == 5

InitPainter ==
    InitCanvas /\ CanvasOnly /\ env = Caller(TRUE, MaxPaintCalls, MaxCmds, AlphaLevels)

\* Choosing paints, clipping and painting.
NextPainter ==
    \/ CallDrawRectangle
    \/ CallSetFillStyle
    \/ CallSetStrokeStyle
    \/ CallClipPreserve
    \/ CallResetClip
    \/ CallFillPreserve
    \/ CallFill
    \/ CallStrokePreserve
    \/ CallStroke

SpecPainter == InitPainter /\ [][NextPainter]_vars

\* ---------------------------------------------------------------- flattenPath alone
\* A program handed to flattenPath has at most MaxProgCmds commands.
MaxProgCmds == 3

\* The fixed points of the commands: whole pixels, as Vector.Fixed makes them.
ProgPoints == {<<0, 0>>, <<192, 0>>, <<0, 128>>}

\* One command of a program: Start, Add1, or Add2 with its control point
\* at the pixel (3, 2).
ProgCmds ==
    {PathStart(<<>>, f) : f \in ProgPoints}
        \cup {PathAdd1(<<>>, f) : f \in ProgPoints}
        \cup {PathAdd2(<<>>, <<192, 128>>, f) : f \in {<<0, 0>>, <<192, 0>>}}

\* The programs of n commands the canvas can build: the first command is a
\* MoveTo.
RECURSIVE ProgramsOf(_)
ProgramsOf(n) ==
    IF n = 1 THEN {PathStart(<<>>, f) : f \in ProgPoints}
    ELSE {p \o cmd : p \in ProgramsOf(n - 1), cmd \in ProgCmds}

Programs == UNION {ProgramsOf(n) : n \in 1..MaxProgCmds} \cup {<<>>}

InitFlatten ==
    /\ InitCanvas
    /\ env = Caller(FALSE, MaxCalls, MaxCmds, AlphaLevels)
    /\ mat = Identity
    /\ dash \in {[program |-> p, result |-> <<>>, done |-> FALSE] : p \in Programs}

\* flattenPath(program) returns.
RunFlattenPath ==
    /\ ~dash.done
    /\ dash' = [dash EXCEPT !.result = flattenPath(dash.program), !.done = TRUE]
    /\ call' = [op |-> "flattenPath", args |-> <<>>, out |-> NoOutput, had |-> FALSE,
                err |-> "nil"]
    /\ UNCHANGED <<c, rasterizer, panicked, env, shadow, restored, calls, mat, win>>

NextFlatten == RunFlattenPath

SpecFlatten == InitFlatten /\ [][NextFlatten]_vars

\* ---------------------------------------------------------------- DrawPoint
\* The caller makes at most MaxPointCalls calls.
MaxPointCalls == 4

CallDrawPoint ==
    \E p \in Points :
        /\ Len(c.stack) < MaxDepth
        /\ Returns("DrawPoint", <<p>>, DrawPoint(c, p), NoOutput)

InitPoint ==
    InitCanvas /\ CanvasOnly /\ env = Caller(TRUE, MaxPointCalls, MaxCmds, AlphaLevels)

\* Setting a transform, drawing points and lines under it.
NextPoint ==
    \/ CallIdentity
    \/ CallTranslate
    \/ CallScale
    \/ CallShear
    \/ CallDrawPoint
    \/ CallLineTo
    \/ CallClearPath

SpecPoint == InitPoint /\ [][NextPoint]_vars

\* ---------------------------------------------------------------- shapes by vertex
\* A shape has at most MaxVertices vertices.
MaxVertices == 2

CallBeginShape == Returns("BeginShape", <<>>, BeginShape(c), NoOutput)

CallVertex ==
    \E p \in Points :
        /\ Len(c.vertexts) < MaxVertices \/ ~c.hasBegin
        /\ Returns("Vertex", <<p>>, Vertex(c, p), NoOutput)

\* EndShape: with a shape begun and no vertex it panics after clearing the
\* flag; otherwise it returns.
CallEndShape ==
    \E isClose \in {<<>>, <<TRUE>>, <<FALSE>>} :
        /\ ~panicked
        /\ MayBuild
        /\ env.observe => calls < env.calls
        /\ call' = [op |-> "EndShape", args |-> <<isClose>>, out |-> NoOutput,
                    had |-> c.hasCurrent, err |-> "nil"]
        /\ IF EndShapePanics(c)
           THEN c' = [c EXCEPT !.hasBegin = FALSE] /\ panicked' = TRUE
           ELSE c' = EndShape(c, isClose) /\ panicked' = FALSE
        /\ calls' = IF env.observe THEN calls + 1 ELSE calls
        /\ restored' = <<>>
        /\ UNCHANGED <<rasterizer, env, shadow, mat, dash, win>>

\* The caller makes at most MaxShapeCalls calls.
MaxShapeCalls == 5

InitShape ==
    InitCanvas /\ CanvasOnly /\ env = Caller(TRUE, MaxShapeCalls, MaxFillCmds, AlphaLevels)

\* Building shapes vertex by vertex.
NextShape ==
    \/ CallBeginShape
    \/ CallVertex
    \/ CallEndShape
    \/ CallMoveTo

SpecShape == InitShape /\ [][NextShape]_vars

\* ---------------------------------------------------------------- window
\* The ticker fires at most MaxTicks times and the window system posts at
\* most MaxInputs events of its own.
MaxTicks == 3
MaxInputs == 2

\* The events the window system posts to the window's queue.
InputEvents == {"size", "keyPress", "keyRelease", "dead"}

\* Drawlib.Start has created the window: the ticker goroutine waits in its
\* select and the event loop is about to call the render callback.
Started(w) == [w EXCEPT !.ticker = "select", !.loop = "render"]

\* Key events whose code is key.CodeEscape.
EscapeEvents == {"escapePress", "escapeRelease"}

\* Key events of direction key.DirPress.
PressEvents == {"keyPress", "escapePress"}

\* The callback cb, when one is registered, is invoked.
Invoke(registered, cb) == IF registered THEN <<cb>> ELSE <<>>

\* The event loop with the Escape test after the direction switch: the key
\* callback runs for the Escape event before the loop returns.
DispatchEscapeLast(w, e) ==
    CASE e = "update"     -> [w EXCEPT !.loop = "swapbuffer", !.ran = <<>>]
      [] e = "size"       -> [w EXCEPT !.loop = "size", !.ran = <<>>]
      [] e = "dead"       ->
            [w EXCEPT !.loop = "returned", !.exit = "dead",
                      !.ran = Invoke(w.closeCallback, "close"),
                      !.closed = IF w.closeCallback THEN @ + 1 ELSE @]
      [] e \in PressEvents ->
            [w EXCEPT !.keyIsPress = TRUE,
                      !.ran = Invoke(w.KeyPressCallback, "keyPress"),
                      !.loop = IF w.defaultCloseOperation /\ e \in EscapeEvents
                               THEN "returned" ELSE @,
                      !.exit = IF w.defaultCloseOperation /\ e \in EscapeEvents
                               THEN "escape" ELSE @]
      [] e \notin PressEvents /\ e \in {"keyRelease", "escapeRelease"} ->
            [w EXCEPT !.keyIsPress = FALSE,
                      !.ran = Invoke(w.KeyReleaseCallback, "keyRelease"),
                      !.loop = IF w.defaultCloseOperation /\ e \in EscapeEvents
                               THEN "returned" ELSE @,
                      !.exit = IF w.defaultCloseOperation /\ e \in EscapeEvents
                               THEN "escape" ELSE @]

\* What the event loop does with the event e it took from the queue: the
\* switch of eventLoop.  StageDead runs the close callback and returns; an
\* Escape key event returns before the direction switch when the default
\* close operation is on; the other key events set keyIsPress and run the
\* key callback of their direction.
Dispatch(w, e) ==
    CASE e = "update"     -> [w EXCEPT !.loop = "swapbuffer", !.ran = <<>>]
      [] e = "size"       -> [w EXCEPT !.loop = "size", !.ran = <<>>]
      [] e = "dead"       ->
            [w EXCEPT !.loop = "returned", !.exit = "dead",
                      !.ran = Invoke(w.closeCallback, "close"),
                      !.closed = IF w.closeCallback THEN @ + 1 ELSE @]
      [] e \in EscapeEvents /\ w.defaultCloseOperation ->
            [w EXCEPT !.loop = "returned", !.exit = "escape", !.ran = <<>>]
      [] e \in PressEvents /\ ~(e \in EscapeEvents /\ w.defaultCloseOperation) ->
            [w EXCEPT !.keyIsPress = TRUE,
                      !.ran = Invoke(w.KeyPressCallback, "keyPress")]
      [] e \in {"keyRelease", "escapeRelease"}
           /\ ~(e \in EscapeEvents /\ w.defaultCloseOperation) ->
            [w EXCEPT !.keyIsPress = FALSE,
                      !.ran = Invoke(w.KeyReleaseCallback, "keyRelease")]

\* A step of the window layer: the canvas is not part of it.
WindowStep(nw) ==
    /\ win' = nw
    /\ UNCHANGED <<c, rasterizer, panicked, call, env, shadow, restored, calls, mat, dash>>

\* Drawlib.Start
Start == win.loop = "off" /\ WindowStep(Started(win))

\* eventLoop: the render callback has returned, the loop begins.
RenderReturns == win.loop = "render" /\ WindowStep([win EXCEPT !.loop = "next"])

\* The ticker goroutine, case <-tickerC: the key and mouse callbacks have
\* run and the render-loop callback is entered.  No lock is taken.
TickerFires ==
    /\ win.ticker = "select"
    /\ win.loop # "returned"
    /\ win.ticks < MaxTicks
    /\ WindowStep([win EXCEPT !.ticker = "callback", !.ticks = @ + 1])

\* The render-loop callback returns and w.Send(updateEvent{}) queues the
\* event without waiting for the event loop.
RenderLoopReturns ==
    /\ win.ticker = "callback"
    /\ win.loop # "returned"
    /\ WindowStep([win EXCEPT !.ticker = "select", !.events = Append(@, "update")])

\* The window system posts an event.
PostEvent ==
    \E e \in InputEvents :
        /\ win.loop \notin {"off", "returned"}
        /\ win.inputs < MaxInputs
        /\ WindowStep([win EXCEPT !.events = Append(@, e), !.inputs = @ + 1])

\* eventLoop: d.window.NextEvent() returns the head of the queue and the
\* switch dispatches it.
NextEvent ==
    /\ win.loop = "next"
    /\ Len(win.events) > 0
    /\ WindowStep(Dispatch([win EXCEPT !.events = Tail(@)], Head(win.events)))

\* d.mutex.Lock() in swapbuffer and in the size case.
LockMutex ==
    /\ win.loop \in {"swapbuffer", "size"}
    /\ win.mutex = "free"
    /\ WindowStep([win EXCEPT !.mutex = "held",
                              !.loop = IF @ = "swapbuffer" THEN "copying" ELSE "resizing"])

\* swapbuffer: the canvas image has been copied to the screen buffer and
\* published; d.mutex.Unlock().
SwapbufferReturns ==
    /\ win.loop = "copying"
    /\ WindowStep([win EXCEPT !.mutex = "free", !.loop = "next", !.frames = @ + 1])

\* The size case: d.rect is recomputed from the event; d.mutex.Unlock().
SizeReturns ==
    /\ win.loop = "resizing"
    /\ WindowStep([win EXCEPT !.mutex = "free", !.loop = "next", !.rect = "event"])

InitWindow == InitCanvas /\ CanvasOnly /\ env = Caller(FALSE, MaxCalls, MaxCmds, AlphaLevels)

NextWindow ==
    \/ Start
    \/ RenderReturns
    \/ TickerFires
    \/ RenderLoopReturns
    \/ PostEvent
    \/ NextEvent
    \/ LockMutex
    \/ SwapbufferReturns
    \/ SizeReturns

SpecWindow == InitWindow /\ [][NextWindow]_vars

\* ---------------------------------------------------------------- event loop exit
\* The program calls Quit at most MaxQuits times.
MaxQuits == 1

\* The events that reach the event loop from the window system, key events
\* with code Escape among them.
LoopEvents == InputEvents \cup EscapeEvents

\* Drawlib.SetDefualteCloseOperation
SetDefualteCloseOperation ==
    \E value \in BOOLEAN :
        /\ win.loop # "returned"
        /\ WindowStep([win EXCEPT !.defaultCloseOperation = value])

\* Drawlib.OnWindowsClose
OnWindowsClose ==
    win.loop # "returned" /\ WindowStep([win EXCEPT !.closeCallback = TRUE])

\* Drawlib.OnKeyPress
OnKeyPress ==
    win.loop # "returned" /\ WindowStep([win EXCEPT !.KeyPressCallback = TRUE])

\* Drawlib.OnKeyRelease
OnKeyRelease ==
    win.loop # "returned" /\ WindowStep([win EXCEPT !.KeyReleaseCallback = TRUE])

\* Drawlib.Quit: a StageDead lifecycle event is sent to the window.
Quit ==
    /\ win.loop \notin {"off", "returned"}
    /\ win.quits < MaxQuits
    /\ WindowStep([win EXCEPT !.events = Append(@, "dead"), !.quits = @ + 1])

\* The window system posts an event, an Escape key event included.
PostLoopEvent ==
    \E e \in LoopEvents :
        /\ win.loop \notin {"off", "returned"}
        /\ win.inputs < MaxInputs
        /\ WindowStep([win EXCEPT !.events = Append(@, e), !.inputs = @ + 1])

InitLoop == InitCanvas /\ CanvasOnly /\ env = Caller(FALSE, MaxCalls, MaxCmds, AlphaLevels)

NextLoop ==
    \/ SetDefualteCloseOperation
    \/ OnWindowsClose
    \/ OnKeyPress
    \/ OnKeyRelease
    \/ Start
    \/ RenderReturns
    \/ PostLoopEvent
    \/ Quit
    \/ NextEvent
    \/ LockMutex
    \/ SizeReturns

SpecLoop == InitLoop /\ [][NextLoop]_vars

\* ---------------------------------------------------------------- float64
\* 2^n for n >= 0.
RECURSIVE Pow2(_)
Pow2(n) == IF n = 0 THEN 1 ELSE 2 * Pow2(n - 1)

\* The number of bits of n >= 0.
RECURSIVE BitLen(_)
BitLen(n) == IF n = 0 THEN 0 ELSE 1 + BitLen(n \div 2)

\* The float64 m * 2^e, kept as the record [m, e] with m odd, or m = 0 and
\* e = 0.  Every such value with a mantissa below 2^53 is a float64; the
\* operations below are those of Go on float64 wherever the mantissas are
\* short enough to be computed here, and have no value elsewhere.
RECURSIVE Float(_, _)
Float(m, e) ==
    IF m = 0 THEN [m |-> 0, e |-> 0]
    ELSE IF m % 2 = 0 THEN Float(m \div 2, e + 1)
    ELSE [m |-> m, e |-> e]

ShortMantissa(m) == Abs(m) < Pow2(15)

\* The exponent of the first power of two above |a|, for a # 0.
Top(a) == a.e + BitLen(Abs(a.m))

Neg64(a) == [m |-> -a.m, e |-> a.e]

Abs64(a) == [m |-> Abs(a.m), e |-> a.e]

\* The smaller of two exponents.
MinExp(a, b) == IF a.e < b.e THEN a.e ELSE b.e

\* a and b are close enough for their sum to be computed exactly.
Aligned(a, b) ==
    /\ a.e - MinExp(a, b) <= 15
    /\ b.e - MinExp(a, b) <= 15
    /\ ShortMantissa(a.m)
    /\ ShortMantissa(b.m)

\* float64 a + b, rounded to nearest: an addend below a quarter of the
\* other's unit in the last place (53 bits of mantissa) is absorbed; a sum
\* of aligned short mantissas is exact.
Add64(a, b) ==
    CASE a.m = 0 -> b
      [] a.m # 0 /\ b.m = 0 -> a
      [] a.m # 0 /\ b.m # 0 /\ Top(b) <= Top(a) - 55 -> a
      [] a.m # 0 /\ b.m # 0 /\ Top(a) <= Top(b) - 55 -> b
      [] a.m # 0 /\ b.m # 0 /\ Top(b) > Top(a) - 55 /\ Top(a) > Top(b) - 55
            /\ Aligned(a, b) ->
            Float(a.m * Pow2(a.e - MinExp(a, b)) + b.m * Pow2(b.e - MinExp(a, b)),
                  MinExp(a, b))

\* float64 a - b
Sub64(a, b) == Add64(a, Neg64(b))

\* float64 a * b: exact for short mantissas.
Mul64(a, b) ==
    CASE ShortMantissa(a.m) /\ ShortMantissa(b.m) -> Float(a.m * b.m, a.e + b.e)

\* float64 a / b: exact when the mantissa of b divides that of a.
Div64(a, b) ==
    CASE b.m # 0 /\ Abs(a.m) % Abs(b.m) = 0 ->
            Float((IF (a.m < 0) = (b.m < 0) THEN 1 ELSE -1) * (Abs(a.m) \div Abs(b.m)),
                  a.e - b.e)

\* float64 a < b
RECURSIVE Less64(_, _)
Less64(a, b) ==
    IF a.m <= 0 /\ b.m > 0 THEN TRUE
    ELSE IF a.m < 0 /\ b.m = 0 THEN TRUE
    ELSE IF a.m >= 0 /\ b.m <= 0 THEN FALSE
    ELSE IF a.m < 0 THEN Less64(Neg64(b), Neg64(a))
    ELSE IF Top(a) # Top(b) THEN Top(a) < Top(b)
    ELSE a.m * Pow2(a.e - MinExp(a, b)) < b.m * Pow2(b.e - MinExp(a, b))

\* A *Vector whose X and Y are float64 values.
Vector64(x, y) == [X |-> x, Y |-> y]

\* Vector.Distance on float64: math.Sqrt(dx*dx + dy*dy) is |dx| when dy is
\* zero and |dy| when dx is zero (the square of a short mantissa is exact
\* and so is its root).
Distance64(v, w) ==
    LET dx == Sub64(v.X, w.X)
        dy == Sub64(v.Y, w.Y)
    IN  CASE dy.m = 0 -> Abs64(dx)
          [] dy.m # 0 /\ dx.m = 0 -> Abs64(dy)

\* Vector.Interpolate on float64.
Interpolate64(v, w, t) ==
    Vector64(Add64(v.X, Mul64(Sub64(w.X, v.X), t)),
             Add64(v.Y, Mul64(Sub64(w.Y, v.Y), t)))

\* ---------------------------------------------------------------- dashPath step by step
\* A polyline handed to dashPath has at most MaxWalkLen points, and the
\* segments dashPath appends to result are counted up to MaxSegments.
MaxWalkLen == 3
MaxSegments == 3

\* Points of the line y = 0.
WalkPoints == {Vector64(Float(x, 0), Float(0, 0)) : x \in 1..3}

\* The polylines handed to dashPath.
WalkPolylines == UNION {[1..n -> WalkPoints] : n \in 1..MaxWalkLen}

\* The dash lengths: 1, 2, 4 and 2^-60.
WalkLengths == {Float(1, 0), Float(2, 0), Float(4, 0), Float(1, -60)}

\* The dash patterns: none, one entry, two entries.
WalkPatterns ==
    {<<>>} \cup {<<a>> : a \in WalkLengths}
           \cup {<<a, b>> : a \in {Float(1, 0), Float(1, -60)}, b \in WalkLengths}

\* dashPath(paths, dashes) is called: pc is the position in the function,
\* k the index of the polyline of the outer loop, the other fields are the
\* locals of the loop body, segments the number of segments appended to
\* result.
DashCall(paths, dashes) ==
    [paths |-> paths, dashes |-> dashes, pc |-> "call", k |-> 0,
     previous |-> <<>>, pathIndex |-> 0, dashIndex |-> 0,
     segmentLength |-> Float(0, 0), segment |-> <<>>, segments |-> 0]

InitDashLoop ==
    /\ InitCanvas
    /\ env = Caller(FALSE, MaxCalls, MaxCmds, AlphaLevels)
    /\ mat = Identity
    /\ dash \in {DashCall(<<pl>>, ds) : pl \in WalkPolylines, ds \in WalkPatterns}

\* A step of dashPath: nothing but its locals changes.
DashStep(nd) ==
    /\ dash' = nd
    /\ UNCHANGED <<c, rasterizer, panicked, call, env, shadow, restored, calls, mat, win>>

\* result = append(result, segment), counted.
Appended1(n) == IF n < MaxSegments THEN n + 1 ELSE n

\* The two tests before the loops: no pattern returns the polylines, a
\* single entry is doubled.
DashPathEnters ==
    /\ dash.pc = "call"
    /\ DashStep(IF Len(dash.dashes) = 0 THEN [dash EXCEPT !.pc = "return"]
                ELSE [dash EXCEPT !.pc = "paths", !.k = 1,
                                  !.dashes = IF Len(@) = 1 THEN Append(@, @[1]) ELSE @])

\* for _, path := range paths: the loop ends, a polyline of fewer than two
\* points is skipped, or the locals are set up for the polyline.
NextPath ==
    /\ dash.pc = "paths"
    /\ DashStep(IF dash.k > Len(dash.paths) THEN [dash EXCEPT !.pc = "return"]
                ELSE IF Len(dash.paths[dash.k]) < 2 THEN [dash EXCEPT !.k = @ + 1]
                ELSE [dash EXCEPT !.pc = "walk",
                                  !.previous = dash.paths[dash.k][1],
                                  !.pathIndex = 1,
                                  !.dashIndex = 0,
                                  !.segmentLength = Float(0, 0),
                                  !.segment = <<dash.paths[dash.k][1]>>])

\* The locals point, d and maxd of one iteration of the inner loop.
WalkPoint == dash.paths[dash.k][dash.pathIndex + 1]
WalkD == Distance64(dash.previous, WalkPoint)
WalkMaxd == Sub64(dash.dashes[dash.dashIndex + 1], dash.segmentLength)

\* An iteration with d > maxd: the segment is cut at the interpolated
\* point p and the next dash entry begins there.
CutSegment ==
    /\ dash.pc = "walk"
    /\ dash.pathIndex < Len(dash.paths[dash.k])
    /\ \E d \in {WalkD}, maxd \in {WalkMaxd} :
          /\ Less64(maxd, d)
          /\ \E t \in {Div64(maxd, d)} :
                \E p \in {Interpolate64(dash.previous, WalkPoint, t)} :
                    DashStep([dash EXCEPT !.segments = IF dash.dashIndex % 2 = 0
                                                       THEN Appended1(@) ELSE @,
                                          !.segment = <<p>>,
                                          !.segmentLength = Float(0, 0),
                                          !.previous = p,
                                          !.dashIndex = (@ + 1) % Len(dash.dashes)])

\* An iteration with d <= maxd: the point is taken into the segment.
ConsumePoint ==
    /\ dash.pc = "walk"
    /\ dash.pathIndex < Len(dash.paths[dash.k])
    /\ \E d \in {WalkD}, maxd \in {WalkMaxd} :
          /\ ~Less64(maxd, d)
          /\ \E length \in {Add64(dash.segmentLength, d)} :
                DashStep([dash EXCEPT !.segment = Append(@, WalkPoint),
                                      !.previous = WalkPoint,
                                      !.segmentLength = length,
                                      !.pathIndex = @ + 1])

\* The inner loop ends: an open "on" segment is appended and the outer
\* loop goes on.
PathEnds ==
    /\ dash.pc = "walk"
    /\ dash.pathIndex >= Len(dash.paths[dash.k])
    /\ DashStep([dash EXCEPT !.segments = IF dash.dashIndex % 2 = 0 /\ Len(dash.segment) > 1
                                          THEN Appended1(@) ELSE @,
                             !.k = @ + 1,
                             !.pc = "paths"])

NextDashLoop ==
    \/ DashPathEnters
    \/ NextPath
    \/ CutSegment
    \/ ConsumePoint
    \/ PathEnds

\* dashPath runs on: a step that can be taken is taken.
SpecDashLoop == InitDashLoop /\ [][NextDashLoop]_vars /\ WF_vars(NextDashLoop)

\* ---------------------------------------------------------------- properties
\* The style fields, the transform and the clip mask of a canvas.
StyleOf(cv) ==
    [lineWidth |-> cv.lineWidth, lineCap |-> cv.lineCap, lineJoin |-> cv.lineJoin,
     fillRule |-> cv.fillRule, dashes |-> cv.dashes, color |-> cv.color,
     fillPattern |-> cv.fillPattern, strokePattern |-> cv.strokePattern,
     matrix |-> cv.matrix, mask |-> cv.mask]

\* The path cursor of a canvas.
CursorOf(cv) == [start |-> cv.start, current |-> cv.current, hasCurrent |-> cv.hasCurrent]

\* The last call was a Pop that returned and that has a matching Push.
MatchedPop == call.op = "Pop" /\ ~panicked /\ Len(restored) > 0

\* C1: after a Pop, the style fields, the transform and the clip mask are
\* those the canvas had just before the matching Push.
PushPopSymmetry == MatchedPop => StyleOf(c) = StyleOf(restored[1])

\* C2: Pop on a canvas whose stack is empty panics; it does not return and
\* it changes nothing.
PopOnEmptyStackPanics ==
    [][(call'.op = "Pop" /\ Len(c.stack) = 0) => (panicked' /\ c' = c)]_vars

\* C2 witness: a Pop was issued on an empty stack and the program panicked.
PopOnEmptyStackPanicked == panicked /\ call.op = "Pop" /\ Len(c.stack) = 0

\* C3: the stack depth is the number of Pushes minus the number of completed
\* Pops, and a Pop without a matching Push fails.
StackDepthIsPushesMinusPops ==
    /\ ~panicked => Len(c.stack) = Len(shadow)
    /\ (call.op = "Pop" /\ Len(restored) = 0) => panicked

\* C4: Push and Pop leave the fill program and the stroke program exactly as
\* they were before the call.
PushPopKeepPrograms ==
    [][(call'.op \in {"Push", "Pop"})
        => (c'.fillPath = c.fillPath /\ c'.strokePath = c.strokePath)]_vars

\* C4 witness: a Pop returned after path-building calls had changed both
\* programs since its matching Push.
PopAfterPathBuilt ==
    /\ MatchedPop
    /\ restored[1].fillPath # c.fillPath
    /\ restored[1].strokePath # c.strokePath
    /\ c.fillPath # c.strokePath

ProgramsStartWithMoveTo ==
    /\ Len(c.fillPath) > 0 => c.fillPath[1] = 0
    /\ Len(c.strokePath) > 0 => c.strokePath[1] = 0

\* C6 witness: a curve call issued without a current point has begun both
\* programs.
CurveBeganPrograms ==
    /\ call.op \in {"QuadraticTo", "CubicTo"}
    /\ ~call.had
    /\ NumCmds(c.strokePath) > 1
    /\ Tags(c.fillPath)[1] = 0
    /\ Tags(c.strokePath)[1] = 0

\* The command of a program that begins at slot i.
CommandAt(p, i) == SubSeq(p, i, i + Stride(p[i]) - 1)

\* A fill program without its auto-close commands: every LineTo that stands
\* right before a MoveTo, and a final LineTo when the subpath was ended
\* without a current point (open = FALSE).
RECURSIVE StripAutoCloseFrom(_, _, _)
StripAutoCloseFrom(p, i, open) ==
    IF i > Len(p) THEN <<>>
    ELSE LET next == i + Stride(p[i])
             auto == /\ p[i] = 1
                     /\ IF next > Len(p) THEN ~open ELSE p[next] = 0
         IN  (IF auto THEN <<>> ELSE CommandAt(p, i)) \o StripAutoCloseFrom(p, next, open)

StripAutoClose(p, open) == StripAutoCloseFrom(p, 1, open)

\* A MoveTo or NewSubPath step taken with a current point appends the
\* LineTo back to the subpath start to the fill program only.
AutoCloseStep ==
    /\ (call'.op = "MoveTo" /\ c.hasCurrent) =>
          /\ SubSeq(c'.fillPath, 1, Len(c.fillPath) + 4)
                = c.fillPath \o <<1, Fixed(c.start)[1], Fixed(c.start)[2], 1>>
          /\ Tags(c'.strokePath) = Tags(c.strokePath) \o <<0>>
    /\ (call'.op = "NewSubPath" /\ c.hasCurrent) =>
          /\ c'.fillPath = c.fillPath \o <<1, Fixed(c.start)[1], Fixed(c.start)[2], 1>>
          /\ c'.strokePath = c.strokePath

\* The stroke program is the fill program without its auto-close commands.
StrokeIsStrippedFill == c.strokePath = StripAutoClose(c.fillPath, c.hasCurrent)

\* C7: the fill program auto-closes and the stroke program never does: the
\* auto-close LineTo goes to the fill program only, and the stroke program
\* always equals the fill program with the auto-close commands removed.
StrokeNeverAutoCloses == [][AutoCloseStep]_vars /\ []StrokeIsStrippedFill

\* C7 witness: a MoveTo issued with a current point has auto-closed the fill
\* program, which now differs from the stroke program.
FillAutoClosed ==
    /\ call.op = "MoveTo"
    /\ call.had
    /\ NumCmds(c.fillPath) = NumCmds(c.strokePath) + 1

\* The device point of user point p, as a Vector and in fixed point.
DeviceVector(cv, p) ==
    NewVector(TransformPoint(cv.matrix, p)[1], TransformPoint(cv.matrix, p)[2])

DeviceFixed(cv, p) == Fixed(DeviceVector(cv, p))

\* The commands of program q that follow its prefix p are all LineTo.
OnlyLinesAfter(p, q) ==
    \A k \in 1..(NumCmds(q) - NumCmds(p)) : Tags(q)[NumCmds(p) + k] = 1

\* What a call issued without a current point does.
ImplicitStartStep ==
    /\ (call'.op = "LineTo" /\ ~c.hasCurrent) =>
          /\ c' = MoveTo(c, call'.args[1])
          /\ Tags(c'.fillPath) = Tags(c.fillPath) \o <<0>>
          /\ Tags(c'.strokePath) = Tags(c.strokePath) \o <<0>>
    /\ (call'.op = "QuadraticTo" /\ ~c.hasCurrent) =>
          LET f1 == DeviceFixed(c, call'.args[1])
              f2 == DeviceFixed(c, call'.args[2])
              curve == <<0, f1[1], f1[2], 0, 2, f1[1], f1[2], f2[1], f2[2], 2>>
          IN  /\ c'.fillPath = c.fillPath \o curve
              /\ c'.strokePath = c.strokePath \o curve
              /\ c'.start = DeviceVector(c, call'.args[1])
    /\ (call'.op = "CubicTo" /\ ~c.hasCurrent) =>
          LET f1 == DeviceFixed(c, call'.args[1])
              begun == <<0, f1[1], f1[2], 0>>
          IN  /\ SubSeq(c'.fillPath, 1, Len(c.fillPath) + 4) = c.fillPath \o begun
              /\ SubSeq(c'.strokePath, 1, Len(c.strokePath) + 4) = c.strokePath \o begun
              /\ OnlyLinesAfter(c.fillPath \o begun, c'.fillPath)
              /\ OnlyLinesAfter(c.strokePath \o begun, c'.strokePath)
              /\ c'.start = DeviceVector(c, call'.args[1])
    /\ (call'.op \in {"LineTo", "QuadraticTo", "CubicTo"}) => c'.hasCurrent

\* C8: without a current point LineTo(x, y) behaves as MoveTo(x, y), and
\* QuadraticTo and CubicTo first start a subpath at their first control
\* point and then append the curve; the flag is true afterwards.
ImplicitSubpathStart == [][ImplicitStartStep]_vars

\* C8 witness: a CubicTo issued without a current point, under a moved
\* origin, has started a subpath and appended lines.
CubicStartedSubpath ==
    /\ call.op = "CubicTo"
    /\ ~call.had
    /\ c.hasCurrent
    /\ c.matrix # Identity
    /\ c.start = DeviceVector(c, call.args[1])
    /\ NumCmds(c.fillPath) > 2

\* The fixed points of a program of MoveTo and LineTo commands, in order.
RECURSIVE FixedPointsFrom(_, _)
FixedPointsFrom(p, i) ==
    IF i > Len(p) THEN <<>>
    ELSE <<<<p[i + 1], p[i + 2]>>>> \o FixedPointsFrom(p, i + 4)

FixedPoints(p) == FixedPointsFrom(p, 1)

\* A point sequence without its zero-length segments.
RECURSIVE Contour(_)
Contour(pts) ==
    IF Len(pts) < 2 THEN pts
    ELSE IF pts[1] = pts[2] THEN Contour(Rest(pts))
    ELSE <<pts[1]>> \o Contour(Rest(pts))

\* The fill program is MoveTo(a), LineTo(b), LineTo(c) with the subpath left
\* open, or the same followed by the explicit close back to a.
OpenTriangle(cv) == cv.hasCurrent /\ Tags(cv.fillPath) = <<0, 1, 1>>

ClosedTriangle(cv) ==
    /\ cv.hasCurrent
    /\ Tags(cv.fillPath) = <<0, 1, 1, 1>>
    /\ FixedPoints(cv.fillPath)[4] = FixedPoints(cv.fillPath)[1]

\* A fill of a triangle hands the rasterizer the closed contour a-b-c-a,
\* and FillPreserve leaves the canvas as it was.
FillStep ==
    /\ (call'.op \in {"Fill", "FillPreserve"} /\ (OpenTriangle(c) \/ ClosedTriangle(c))) =>
          LET pts == FixedPoints(c.fillPath)
          IN  Contour(FixedPoints(call'.out.path))
                 = Contour(<<pts[1], pts[2], pts[3], pts[1]>>)
    /\ (call'.op = "FillPreserve") => c' = c

\* C9: filling the open path MoveTo(a), LineTo(b), LineTo(c) hands the
\* rasterizer the same closed contour a-b-c-a as filling it after an explicit
\* ClosePath, and the closure is not appended to the stored fill program.
FillAutoClose == [][FillStep]_vars

\* C9 witness: FillPreserve has filled an open triangle of three distinct
\* points, handing over one command more than the program holds.
OpenTriangleFilled ==
    /\ call.op = "FillPreserve"
    /\ OpenTriangle(c)
    /\ Cardinality({FixedPoints(c.fillPath)[k] : k \in 1..3}) = 3
    /\ NumCmds(call.out.path) = 4
    /\ NumCmds(c.fillPath) = 3

\* What the painting calls do to the path.
PaintStep ==
    /\ (call'.op \in {"Fill", "Stroke", "Clip"}) =>
          /\ c'.fillPath = <<>>
          /\ c'.strokePath = <<>>
          /\ ~c'.hasCurrent
          /\ Len(c.fillPath) > 0 => Len(call'.out.path) > 0
    /\ (call'.op \in {"FillPreserve", "StrokePreserve", "ClipPreserve"}) =>
          /\ c'.fillPath = c.fillPath
          /\ c'.strokePath = c.strokePath
          /\ CursorOf(c') = CursorOf(c)

\* C10: Fill, Stroke and Clip paint and then empty both programs and clear
\* the has-current-point flag; FillPreserve, StrokePreserve and ClipPreserve
\* leave both programs, the cursor and the flag as they were.
PaintClearsOrPreserves == [][PaintStep]_vars

\* C10 witness: Clip has painted a non-empty path and left both programs
\* empty, after a ClipPreserve had kept them.
ClipClearedPath ==
    /\ call.op = "Clip"
    /\ call.had
    /\ Len(call.out.path) > 0
    /\ c.mask # NilMask
    /\ c.fillPath = <<>>
    /\ c.strokePath = <<>>

\* What Multiply does to the images of the test points: self first, then
\* the argument.
MultiplyStep ==
    (call'.op = "Matrix.Multiply") =>
        \A p \in TestPoints :
            TransformPoint(mat', p)
                = TransformPoint(call'.args[1], TransformPoint(mat, p))

\* C11: A.Multiply(B).TransformPoint(x, y) equals B.TransformPoint applied to
\* A.TransformPoint(x, y): Multiply(other) applies self first, then other.
MultiplyAppliesSelfFirst == [][MultiplyStep]_vars

\* C11 witness: a translation by (10, 0) was multiplied by a quarter turn, an
\* order that matters: the origin goes to (10, 0) and is then turned to (0, 10).
TranslationThenTurn ==
    /\ call.op = "Matrix.Multiply"
    /\ call.args[1] = RotateMatrix(1)
    /\ mat = [XX |-> 0, YX |-> 1, XY |-> -1, YY |-> 0, X0 |-> 0, Y0 |-> 10]
    /\ TransformPoint(mat, <<0, 0>>) = <<0, 10>>

\* The point (x, y) turned by q quarter turns, sheared and scaled, computed
\* from the coordinates.
Turned(p, q) ==
    CASE q % 4 = 0 -> p
      [] q % 4 = 1 -> <<-p[2], p[1]>>
      [] q % 4 = 2 -> <<-p[1], -p[2]>>
      [] q % 4 = 3 -> <<p[2], -p[1]>>

\* What the convenience operations do: the new operation acts first, in the
\* frame of the receiver.
ConvenienceStep ==
    /\ (call'.op = "Matrix.Translate") =>
          /\ mat' = Multiply(TranslateMatrix(call'.args[1], call'.args[2]), mat)
          /\ \A p \in TestPoints :
                TransformPoint(mat', p)
                    = TransformPoint(mat, <<p[1] + call'.args[1], p[2] + call'.args[2]>>)
    /\ (call'.op = "Matrix.Scale") =>
          /\ mat' = Multiply(ScaleMatrix(call'.args[1], call'.args[2]), mat)
          /\ \A p \in TestPoints :
                TransformPoint(mat', p)
                    = TransformPoint(mat, <<p[1] * call'.args[1], p[2] * call'.args[2]>>)
    /\ (call'.op = "Matrix.Rotate") =>
          /\ mat' = Multiply(RotateMatrix(call'.args[1]), mat)
          /\ \A p \in TestPoints :
                TransformPoint(mat', p) = TransformPoint(mat, Turned(p, call'.args[1]))
    /\ (call'.op = "Matrix.Shear") =>
          /\ mat' = Multiply(ShearMatrix(call'.args[1], call'.args[2]), mat)
          /\ \A p \in TestPoints :
                TransformPoint(mat', p)
                    = TransformPoint(mat, <<p[1] + call'.args[1] * p[2],
                                            call'.args[2] * p[1] + p[2]>>)
    /\ (/\ call'.op = "Matrix.Rotate"
        /\ call'.args[1] = 1
        /\ mat = [XX |-> 1, YX |-> 0, XY |-> 0, YY |-> 1, X0 |-> 10, Y0 |-> 0]) =>
          TransformPoint(mat', <<0, 0>>) = <<10, 0>>

\* C12: the convenience operations pre-multiply: M.Translate(dx, dy) maps
\* (x, y) where M maps (x + dx, y + dy), M.Scale, M.Rotate and M.Shear equal
\* primitive.Multiply(M), and Identity().Translate(10, 0).Rotate(quarter turn)
\* maps (0, 0) to (10, 0).
ConveniencePreMultiplies == [][ConvenienceStep]_vars

\* C12 witness: Identity().Translate(10, 0).Rotate(quarter turn) was built;
\* it maps the origin to (10, 0) and is not the translation alone.
TranslatedThenRotated ==
    /\ call.op = "Matrix.Rotate"
    /\ call.args = <<1>>
    /\ calls = 2
    /\ mat = [XX |-> 0, YX |-> 1, XY |-> -1, YY |-> 0, X0 |-> 10, Y0 |-> 0]
    /\ TransformPoint(mat, <<0, 0>>) = <<10, 0>>

\* The length of a polyline, in thousandths.
RECURSIVE PolyLengthFrom(_, _)
PolyLengthFrom(path, i) ==
    IF i >= Len(path) THEN 0
    ELSE DistanceMilli(path[i], path[i + 1]) + PolyLengthFrom(path, i + 1)

PolyLength(path) == PolyLengthFrom(path, 1)

\* The lengths of the polylines of a set, in order, and the sum of a
\* sequence of numbers.
Lengths(paths) == [k \in 1..Len(paths) |-> PolyLength(paths[k])]

RECURSIVE Sum(_)
Sum(ns) == IF Len(ns) = 0 THEN 0 ELSE ns[1] + Sum(Rest(ns))

\* The pattern a dash list stands for: a single entry is a dash and a gap
\* of that length.
PatternOf(dashes) == IF Len(dashes) = 1 THEN <<dashes[1], dashes[1]>> ELSE dashes

\* The runs a pattern cuts a length into, from pattern index i on: the
\* lengths of the runs whose index has the given parity (0 on, 1 off).
RECURSIVE RunsOfParity(_, _, _, _)
RunsOfParity(remaining, pattern, i, parity) ==
    LET dashLength == pattern[i + 1] * 1000
        mine(n) == IF i % 2 = parity THEN <<n>> ELSE <<>>
    IN  IF remaining <= dashLength THEN mine(remaining)
        ELSE mine(dashLength)
                \o RunsOfParity(remaining - dashLength, pattern, (i + 1) % Len(pattern), parity)

\* The runs of the given parity over all polylines of a set; the pattern
\* starts again at each polyline, and a polyline of one point has no run.
RECURSIVE RunsOver(_, _, _, _)
RunsOver(paths, pattern, k, parity) ==
    IF k > Len(paths) THEN <<>>
    ELSE (IF Len(paths[k]) < 2 THEN <<>>
          ELSE RunsOfParity(PolyLength(paths[k]), pattern, 0, parity))
            \o RunsOver(paths, pattern, k + 1, parity)

\* dashPath has run with a non-empty pattern.
Dashed == dash.done /\ Len(dash.dashes) > 0

\* C13: the lengths of the "on" segments dashPath emits plus the lengths of
\* the "off" runs of the pattern sum to the total length of the polylines.
DashingConserves ==
    Dashed =>
        Sum(Lengths(dash.result)) + Sum(RunsOver(dash.paths, PatternOf(dash.dashes), 1, 1))
            = Sum(Lengths(dash.paths))

\* C13 witness: a polyline with a corner was dashed into several segments,
\* with cuts on both sides of the corner and off runs in between.
CornerDashed ==
    /\ Dashed
    /\ dash.paths = <<<<NewVector(0, 0), NewVector(3, 0), NewVector(3, 4)>>>>
    /\ dash.dashes = <<2, 2>>
    /\ Len(dash.result) = 2
    /\ Sum(Lengths(dash.result)) = 4000
    /\ Sum(Lengths(dash.paths)) = 7000

\* C14: pattern [5, 3] on a straight 16-unit segment gives exactly the two
\* segments [0, 5] and [8, 13]; in general the emitted segments are, in
\* order, the runs of even pattern index and nothing else.
DashParity ==
    /\ (dash.done /\ dash.paths = <<Straight16>> /\ dash.dashes = <<5, 3>>) =>
          dash.result = <<<<NewVector(0, 0), NewVector(5, 0)>>,
                          <<NewVector(8, 0), NewVector(13, 0)>>>>
    /\ Dashed =>
          Lengths(dash.result) = RunsOver(dash.paths, PatternOf(dash.dashes), 1, 0)

\* C14 witness: the 16-unit segment was dashed with [5, 3] into two
\* segments, the second ending 3 units before the end.
SixteenDashed ==
    /\ dash.done
    /\ dash.paths = <<Straight16>>
    /\ dash.dashes = <<5, 3>>
    /\ Len(dash.result) = 2
    /\ dash.result[2][2] = NewVector(13, 0)

\* C15: a single-entry pattern [a] gives exactly the segments of [a, a].
SingleDashIsDoubled ==
    (dash.done /\ Len(dash.dashes) = 1) =>
        dash.result = dashPath(dash.paths, <<dash.dashes[1], dash.dashes[1]>>)

\* C15 witness: a single-entry pattern has cut polylines into dashes and
\* gaps: less was emitted than was handed in.
SingleEntryDashed ==
    /\ dash.done
    /\ dash.dashes = <<2>>
    /\ Len(dash.paths) > 1
    /\ Len(dash.result) > 2
    /\ Sum(Lengths(dash.result)) < Sum(Lengths(dash.paths))

\* The rule a stroke and a fill leave in the shared rasterizer and paint
\* with.
WindingStep ==
    /\ (call'.op \in {"Stroke", "StrokePreserve"}) =>
          /\ call'.out.stroked
          /\ call'.out.winding
          /\ rasterizer'.UseNonZeroWinding
          /\ c'.fillRule = c.fillRule
    /\ (call'.op \in {"Fill", "FillPreserve"}) =>
          /\ ~call'.out.stroked
          /\ c.fillRule = FillRuleWinding =>
                (call'.out.winding /\ rasterizer'.UseNonZeroWinding)
          /\ c.fillRule = FillRuleEvenOdd =>
                (~call'.out.winding /\ ~rasterizer'.UseNonZeroWinding)
          /\ c'.fillRule = c.fillRule

\* C16: Stroke always rasterizes with the nonzero-winding rule and leaves
\* the fill-rule setting alone; Fill always rasterizes with the rule
\* configured at the time of the call, whatever the rasterizer was left with.
StrokeWindsFillFollowsRule == [][WindingStep]_vars

\* C16 witness: with the even-odd rule configured, a path was stroked: the
\* rasterizer is left with nonzero winding and the setting is still even-odd.
StrokedUnderEvenOdd ==
    /\ call.op = "StrokePreserve"
    /\ c.fillRule = FillRuleEvenOdd
    /\ rasterizer.UseNonZeroWinding
    /\ call.out.stroked
    /\ NumCmds(call.out.path) > 1

\* What a clip does to the mask, cov being the coverage of the new clip.
ClipStep ==
    (call'.op \in {"ClipPreserve", "Clip"}) =>
        LET cov == call'.args[1]
        IN  /\ c.mask = NilMask => c'.mask = cov
            /\ c.mask # NilMask =>
                  \A px \in Pixels :
                      /\ c'.mask[px] <= c.mask[px]
                      /\ c'.mask[px] <= cov[px]
                      /\ 255 * c'.mask[px] - cov[px] * c.mask[px] \in -255..255
                      /\ cov[px] = 255 => c'.mask[px] = c.mask[px]
                      /\ c.mask[px] = 255 => c'.mask[px] = cov[px]

\* C17: ClipPreserve with an existing mask installs, per pixel, the product
\* clip * mask / 255 (to the nearest unit), never the new clip alone and
\* never a union, so no pixel's mask alpha grows; with no mask the new clip
\* becomes the mask.
ClipsIntersect == [][ClipStep]_vars

\* C17 witness: a partial clip was intersected with a partial mask: a pixel
\* covered 200 by both is left with alpha 157.
PartialClipsIntersected ==
    /\ call.op = "ClipPreserve"
    /\ \E px \in Pixels : call.args[1][px] = 200 /\ c.mask[px] = 157

\* The pixels a coverage or a mask covers.
Covered(alpha) == {px \in Pixels : alpha[px] > 0}

\* A clip disjoint from the existing mask leaves a zero mask, and painting
\* with a mask goes through the masking painter.
DisjointClipStep ==
    /\ (/\ call'.op \in {"ClipPreserve", "Clip"}
        /\ c.mask # NilMask
        /\ Covered(call'.args[1]) \cap Covered(c.mask) = {}) =>
          \A px \in Pixels : c'.mask[px] = 0
    /\ (call'.op \in {"FillPreserve", "StrokePreserve"} /\ c.mask # NilMask) =>
          (call'.out.painter = "patternPainter" /\ c'.mask = c.mask)

\* C18: two clips whose covered pixel sets are disjoint, applied one after
\* the other, leave a mask whose alpha is zero at every pixel, and later
\* fills and strokes paint through that mask.
DisjointClipsGiveZeroMask == [][DisjointClipStep]_vars

\* C18 witness: after a clip covering only the first pixel, a clip covering
\* only the second one was applied; the mask is zero everywhere.
DisjointClipsApplied ==
    /\ call.op = "ClipPreserve"
    /\ calls = 3
    /\ call.args[1] = <<0, 255>>
    /\ c.mask = <<0, 0>>

\* What InvertMask does to the mask, and what a second InvertMask would.
InvertStep ==
    (call'.op = "InvertMask") =>
        /\ c.mask = NilMask => c'.mask = <<0, 0>>
        /\ c.mask # NilMask =>
              /\ \A px \in Pixels : c'.mask[px] = 255 - c.mask[px]
              /\ InvertMask(c').mask = c.mask
        /\ [c' EXCEPT !.mask = c.mask] = c

\* C19: InvertMask replaces every alpha sample a of an existing mask by
\* 255 - a, so applying it twice restores the mask; with no mask it installs
\* an all-zero mask of the canvas size.
InvertMaskComplements == [][InvertStep]_vars

\* C19 witness: a mask with samples 200 and 0 was inverted to 55 and 255 and
\* inverted again: it is 200 and 0 once more.
InvertedTwice ==
    /\ call.op = "InvertMask"
    /\ calls = 4
    /\ c.mask = <<200, 0>>

\* What SetMask does for a mask of another size and for one of the canvas
\* size.
SetMaskStep ==
    (call'.op = "SetMask") =>
        LET mask == call'.args[1]
        IN  /\ mask.size # CanvasSize =>
                  (call'.err # "nil" /\ c' = c /\ rasterizer' = rasterizer)
            /\ mask.size = CanvasSize =>
                  /\ call'.err = "nil"
                  /\ c'.mask = mask.pix
                  /\ [c' EXCEPT !.mask = c.mask] = c

\* C20: SetMask with a mask whose dimensions differ from the canvas image
\* returns an error and leaves the mask and the rest of the canvas as they
\* were; with matching dimensions it returns nil and installs the mask.
SetMaskChecksSize == [][SetMaskStep]_vars

\* C20 witness: a mask with the pixel count of the canvas but another shape
\* was rejected, and the clip mask installed before is still in place.
WrongShapeRejected ==
    /\ call.op = "SetMask"
    /\ call.err # "nil"
    /\ call.args[1].size = <<1, 2>>
    /\ c.mask = <<200, 200>>

\* The tags of the commands that program q has after its prefix p.
Appended(p, q) == SubSeq(Tags(q), NumCmds(p) + 1, NumCmds(q))

\* Every command a curve call appended is a MoveTo or a LineTo.
FlattenedAtCallStep ==
    (call'.op \in {"QuadraticTo", "CubicTo"}) =>
        /\ \A k \in DOMAIN Appended(c.fillPath, c'.fillPath) :
              Appended(c.fillPath, c'.fillPath)[k] \in {0, 1}
        /\ \A k \in DOMAIN Appended(c.strokePath, c'.strokePath) :
              Appended(c.strokePath, c'.strokePath)[k] \in {0, 1}

\* C21 as stated: after any QuadraticTo or CubicTo call the commands the
\* call added to the fill and stroke programs are only MoveTo and LineTo
\* commands, for quadratic and cubic curves alike.
CurvesFlattenedAtCall == [][FlattenedAtCallStep]_vars

\* What the two curve calls append to the programs.
CurveAppendStep ==
    /\ (call'.op = "CubicTo") =>
          /\ SubSeq(c'.fillPath, 1, Len(c.fillPath)) = c.fillPath
          /\ SubSeq(c'.strokePath, 1, Len(c.strokePath)) = c.strokePath
          /\ Appended(c.fillPath, c'.fillPath) = Appended(c.strokePath, c'.strokePath)
          /\ \A k \in DOMAIN Appended(c.fillPath, c'.fillPath) :
                Appended(c.fillPath, c'.fillPath)[k] = (IF k = 1 /\ ~c.hasCurrent THEN 0 ELSE 1)
    /\ (call'.op = "QuadraticTo") =>
          LET begun == IF c.hasCurrent THEN <<>> ELSE <<0>>
          IN  /\ SubSeq(c'.fillPath, 1, Len(c.fillPath)) = c.fillPath
              /\ SubSeq(c'.strokePath, 1, Len(c.strokePath)) = c.strokePath
              /\ Appended(c.fillPath, c'.fillPath) = begun \o <<2>>
              /\ Appended(c.strokePath, c'.strokePath) = begun \o <<2>>
    /\ (call'.op \in {"Stroke", "StrokePreserve"}) =>
          \A k \in DOMAIN Tags(call'.out.path) : Tags(call'.out.path)[k] \in {0, 1}

\* C21, amended: only CubicTo flattens at call time (it appends LineTo
\* commands, after the MoveTo of an implicit subpath start); QuadraticTo
\* appends one quadratic command to both programs, which stays in them
\* until a stroke flattens it: the path a stroke rasterizes holds only
\* MoveTo and LineTo commands.
CubicFlattenedQuadraticDeferred == [][CurveAppendStep]_vars

\* C21 witness: a QuadraticTo issued with a current point has left a
\* quadratic command at the end of both programs.
QuadraticKeptInPrograms ==
    /\ call.op = "QuadraticTo"
    /\ call.had
    /\ Tags(c.fillPath)[NumCmds(c.fillPath)] = 2
    /\ Tags(c.strokePath)[NumCmds(c.strokePath)] = 2

\* No two neighbours of a sequence of fixed points are equal.
NoRepeat(pts) == \A k \in 1..(Len(pts) - 1) : pts[k] # pts[k + 1]

\* The part of program q after its prefix p.
Suffix(p, q) == SubSeq(q, Len(p) + 1, Len(q))

\* No LineTo of a program of MoveTo and LineTo commands ends where the
\* command before it ends.
NoZeroLengthSegment(p) ==
    \A k \in 1..(NumCmds(p) - 1) :
        Tags(p)[k + 1] = 1 => FixedPoints(p)[k] # FixedPoints(p)[k + 1]

\* A program of MoveTo and LineTo commands has a LineTo that ends where the
\* command before it ends.
HasZeroLengthSegment(p) ==
    \E k \in 1..(NumCmds(p) - 1) :
        Tags(p)[k + 1] = 1 /\ FixedPoints(p)[k] = FixedPoints(p)[k + 1]

\* What CubicTo appends and what a stroke rasterizes.
CoalesceStep ==
    /\ (call'.op = "CubicTo") =>
          LET entry == IF c.hasCurrent THEN <<Fixed(c.current)>> ELSE <<>>
          IN  /\ NoRepeat(entry \o FixedPoints(Suffix(c.fillPath, c'.fillPath)))
              /\ NoRepeat(entry \o FixedPoints(Suffix(c.strokePath, c'.strokePath)))
    /\ (call'.op \in {"Stroke", "StrokePreserve"}) =>
          NoZeroLengthSegment(call'.out.path)

\* C22: CubicTo never appends to either program a point whose fixed-point
\* coordinates equal those of the point appended just before it (or of the
\* current point on entry), and the path a stroke hands to the rasterizer
\* has no two consecutive equal points within a subpath.
DuplicatesCoalesced == [][CoalesceStep]_vars

\* C22 witness: a stroke of a program holding a zero-length segment has
\* handed the rasterizer a shorter path.
StrokeDroppedDuplicate ==
    /\ call.op = "StrokePreserve"
    /\ Len(c.dashes) = 0
    /\ \A k \in DOMAIN Tags(c.strokePath) : Tags(c.strokePath)[k] \in {0, 1}
    /\ HasZeroLengthSegment(c.strokePath)
    /\ NumCmds(call.out.path) < NumCmds(c.strokePath)

\* The slot at which command k of program p begins.
RECURSIVE CmdStart(_, _)
CmdStart(p, k) == IF k = 1 THEN 1 ELSE CmdStart(p, k - 1) + Stride(p[CmdStart(p, k - 1)])

\* The point at which command k of program p ends, as a Vector.
CmdPoint(p, k) ==
    LET s == CmdStart(p, k)
    IN  UnfixVector(p[s + Stride(p[s]) - 3], p[s + Stride(p[s]) - 2])

\* The commands of program p that are MoveTo, and the j-th of them.
MoveToCmds(p) == {k \in 1..NumCmds(p) : Tags(p)[k] = 0}
NthMoveTo(p, j) == CHOOSE k \in MoveToCmds(p) : Cardinality({m \in MoveToCmds(p) : m <= k}) = j

\* The last command of the subpath that the j-th MoveTo of p begins.
SubpathEnd(p, j) ==
    IF j = Cardinality(MoveToCmds(p)) THEN NumCmds(p) ELSE NthMoveTo(p, j + 1) - 1

\* The polylines result decode program p.
Decodes(p, result) ==
    /\ Len(result) = Cardinality(MoveToCmds(p))
    /\ \A j \in 1..Len(result) :
          /\ Len(result[j]) > 0
          /\ result[j][1] = CmdPoint(p, NthMoveTo(p, j))
          /\ (\A k \in NthMoveTo(p, j)..SubpathEnd(p, j) : Tags(p)[k] \in {0, 1}) =>
                result[j] = [i \in 1..(SubpathEnd(p, j) - NthMoveTo(p, j) + 1) |->
                                CmdPoint(p, NthMoveTo(p, j) + i - 1)]

\* C23: flattenPath decodes a program into one polyline per MoveTo, in
\* program order, each beginning at its MoveTo point; every LineTo gives
\* exactly one point, so MoveTo(a), LineTo(b) decodes to the one polyline
\* [a, b].
FlattenDecodesSubpaths ==
    dash.done =>
        /\ Decodes(dash.program, dash.result)
        /\ \A a, b \in ProgPoints :
              dash.program = PathAdd1(PathStart(<<>>, a), b) =>
                  dash.result = <<<<UnfixVector(a[1], a[2]), UnfixVector(b[1], b[2])>>>>

\* C23 witness: a program of two MoveTo commands, the first followed by a
\* LineTo, was decoded into a polyline of two points and one of one point.
TwoSubpathsDecoded ==
    /\ dash.done
    /\ Tags(dash.program) = <<0, 1, 0>>
    /\ Len(dash.result) = 2
    /\ dash.result[1] = <<NewVector(0, 0), NewVector(3, 0)>>
    /\ dash.result[2] = <<NewVector(0, 2)>>

\* The painter a painting call must build for the paint it uses.
PainterStep ==
    /\ (call'.op \in {"FillPreserve", "Fill"}) =>
          /\ c.mask # NilMask => call'.out.painter = "patternPainter"
          /\ call'.out.painter = "RGBAPainter" <=> (c.mask = NilMask /\ c.fillPattern.solid)
          /\ call'.out.painter \in {"RGBAPainter", "patternPainter"}
    /\ (call'.op \in {"StrokePreserve", "Stroke"}) =>
          /\ c.mask # NilMask => call'.out.painter = "patternPainter"
          /\ call'.out.painter = "RGBAPainter" <=> (c.mask = NilMask /\ c.strokePattern.solid)
          /\ call'.out.painter \in {"RGBAPainter", "patternPainter"}

\* C24: while a clip mask is active FillPreserve and StrokePreserve paint
\* through the pattern painter, for solid and non-solid paints alike; the
\* solid-color fast path is taken only when no mask is active and the paint
\* is a solid pattern.
MaskedPaintUsesPatternPainter == [][PainterStep]_vars

\* C24 witness: a fill with a solid paint under an active clip mask went
\* through the pattern painter.
SolidFillPaintedThroughMask ==
    /\ call.op = "FillPreserve"
    /\ c.mask # NilMask
    /\ c.fillPattern.solid
    /\ call.out.painter = "patternPainter"

\* C25: swapbuffer's copy of the canvas image never overlaps an execution
\* of the render-loop callback: while the event loop is inside swapbuffer
\* the ticker goroutine is not inside the callback.
SwapbufferExcludesCallback == ~(win.loop = "copying" /\ win.ticker = "callback")

\* C26: DrawPoint leaves the current transform unchanged: the matrix after
\* DrawPoint(x, y, r) is the matrix before it, whatever that was.
DrawPointKeepsMatrix == [][(call'.op = "DrawPoint") => c'.matrix = c.matrix]_vars

\* C27: whenever the has-current-point flag is true, the subpath start and
\* the current point are set and both programs are non-empty.
CurrentPointIsSet ==
    c.hasCurrent =>
        /\ c.start # NilVector
        /\ c.current # NilVector
        /\ Len(c.fillPath) > 0
        /\ Len(c.strokePath) > 0

\* C27 witness: a Pop has returned on a canvas that has a current point,
\* both points set and both programs non-empty.
CursorSetAfterPop ==
    /\ call.op = "Pop"
    /\ ~panicked
    /\ c.hasCurrent
    /\ c.start # NilVector
    /\ c.current # c.start
    /\ Len(c.fillPath) > 0
    /\ Len(c.strokePath) > 0

\* What the claim requires of Vertex and EndShape.
ShapeStep ==
    /\ (call'.op = "EndShape") => ~panicked'
    /\ (call'.op = "Vertex" /\ ~c.hasBegin) => c' = c
    /\ (call'.op = "EndShape" /\ ~c.hasBegin) => c' = c
    /\ (call'.op = "EndShape" /\ c.hasBegin) => ~c'.hasBegin

\* C28: for every sequence of BeginShape, Vertex and EndShape calls,
\* EndShape completes without a run-time failure: a Vertex outside a shape
\* is ignored, EndShape without BeginShape is a no-op, and EndShape after
\* BeginShape, with any number of vertices including none, ends the shape
\* and clears the in-shape flag.
ShapeCallsNeverFail == [][ShapeStep]_vars

\* Every entry of the pattern of this run is positive.
PositivePattern ==
    /\ Len(dash.dashes) > 0
    /\ \A i \in DOMAIN dash.dashes : Less64(Float(0, 0), dash.dashes[i])

\* The consumed length of the current dash entry is between 0 and the
\* entry's length.
ConsumedWithinEntry ==
    (dash.pc = "walk") =>
        /\ ~Less64(dash.segmentLength, Float(0, 0))
        /\ ~Less64(dash.dashes[dash.dashIndex + 1], dash.segmentLength)

\* C29: dashPath terminates for every set of polylines whenever the dash
\* pattern is non-empty and all its entries are positive, and the consumed
\* length of the current entry always stays between 0 and that entry's
\* length.
DashPathTerminates ==
    PositivePattern => (<>(dash.pc = "return") /\ []ConsumedWithinEntry)

\* The segments of the polylines paths[k..], each dashed on its own.
RECURSIVE DashedAlone(_, _, _)
DashedAlone(paths, dashes, k) ==
    IF k > Len(paths) THEN <<>>
    ELSE dashPath(<<paths[k]>>, dashes) \o DashedAlone(paths, dashes, k + 1)

\* C30: the dash phase is not carried across a path break: every polyline
\* is dashed from pattern entry 0 with nothing consumed, beginning at its
\* first point, so its segments are those it gives when dashed alone,
\* whatever polylines come before it.
DashPhaseRestarts ==
    Dashed =>
        /\ dash.result = DashedAlone(dash.paths, dash.dashes, 1)
        /\ \A k \in DOMAIN dash.paths :
              Len(dash.paths[k]) >= 2 =>
                  dashPath(<<dash.paths[k]>>, dash.dashes)[1][1] = dash.paths[k][1]

\* C30 witness: a polyline of length 3 ended in the middle of the first
\* entry of [5, 3], and the 16-unit polyline after it was dashed from its
\* first point as it is alone.
PhaseRestartedAfterBreak ==
    /\ Dashed
    /\ dash.dashes = <<5, 3>>
    /\ dash.paths = <<<<NewVector(0, 0), NewVector(3, 0)>>, Straight16>>
    /\ dash.result = <<<<NewVector(0, 0), NewVector(3, 0)>>,
                       <<NewVector(0, 0), NewVector(5, 0)>>,
                       <<NewVector(8, 0), NewVector(13, 0)>>>>

\* The event loop returns in this step.
LoopReturns == win.loop # "returned" /\ win'.loop = "returned"

\* The return statement taken and the runs of the close callback agree: the
\* loop has returned exactly when an exit is recorded, and the close
\* callback has run at most once, and only on the StageDead exit.
ExitAccount ==
    /\ (win.loop = "returned") <=> (win.exit # "none")
    /\ win.closed <= 1
    /\ win.closed = 1 => win.exit = "dead"
    /\ win.exit = "escape" => win.closed = 0 /\ win.ran = <<>>

\* A step in which the loop returns takes a StageDead event, running the
\* registered close callback once and nothing else, or takes an Escape key
\* event with the default close operation on, running no callback and
\* leaving keyIsPress alone; after the return no callback runs.
ExitStep ==
    /\ LoopReturns =>
          /\ win.loop = "next"
          /\ Len(win.events) > 0
          /\ \/ /\ Head(win.events) = "dead"
                /\ win'.exit = "dead"
                /\ win'.ran = Invoke(win.closeCallback, "close")
                /\ win'.closed = IF win.closeCallback THEN 1 ELSE 0
             \/ /\ Head(win.events) \in EscapeEvents
                /\ win.defaultCloseOperation
                /\ win'.exit = "escape"
                /\ win'.ran = <<>>
                /\ win'.closed = 0
                /\ win'.keyIsPress = win.keyIsPress
    /\ win.loop = "returned" =>
          /\ win'.loop = "returned"
          /\ win'.ran = win.ran
          /\ win'.closed = win.closed

\* C31: the event loop exits only on a StageDead lifecycle event or, with
\* the default close operation enabled, on an Escape key event; the
\* registered close callback runs exactly once before the StageDead exit
\* and not at all on the Escape exit, and the key press and release
\* callbacks are not invoked for the Escape event that exits.
EventLoopExits == []ExitAccount /\ [][ExitStep]_vars

\* C31 witness: with close and key callbacks registered and a key held
\* down by an earlier press, the loop has exited on an Escape event
\* without running any callback.
ExitedOnEscape ==
    /\ win.exit = "escape"
    /\ win.loop = "returned"
    /\ win.closeCallback
    /\ win.KeyPressCallback
    /\ win.KeyReleaseCallback
    /\ win.keyIsPress
    /\ win.closed = 0
    /\ win.ran = <<>>

====
